---------------------------- MODULE Spec2Model ----------------------------
(***************************************************************************)
(* A model of the CUPL-to-JEDEC compiler pborges/cupl: the Quine-McCluskey *)
(* minimizer, the field-range lowering, the Compile driver, BuildGAL and   *)
(* the JEDEC emitter.                                                      *)
(*                                                                         *)
(* Identifier names are modelled as natural numbers: the number of a name  *)
(* is its rank in the lexicographic order of the identifiers in use, so    *)
(* that "sorted by name" is "sorted by number".                            *)
(***************************************************************************)
EXTENDS Integers, Sequences, FiniteSets, TLC

VARIABLES
    terms,      \* minimizer: the term list handed to minimizeTerms
    result,     \* minimizer: what minimizeTerms(terms) returned
    result2,    \* minimizer: what minimizeTerms(result) returned
    phase,      \* minimizer: position of the driver: "in", "min", "min2"
    field,      \* range lowering: the Field, a sequence of FieldBits
    frLo,       \* range lowering: ExprFieldRange.Lo
    frHi,       \* range lowering: ExprFieldRange.Hi
    rangeTerms, \* range lowering: dnf of F:[lo..hi]
    notRangeTerms, \* range lowering: dnf of !(F:[lo..hi])
    rphase,     \* range lowering: the set of steps done
    cPins,      \* Compile: Content.Pins, pin number -> PinDef
    cEqs,       \* Compile: Content.Equations
    run1,       \* Compile: what the first Compile(c) returned
    run2,       \* Compile: what the second Compile(c) returned
    cphase,     \* Compile: "parse", "first", "second"
    gal,        \* JEDEC: the GAL handed to MakeJEDEC
    jed,        \* JEDEC: what MakeJEDEC wrote: the *L lines and the *C line
    jplaced,    \* JEDEC: the OLMCs whose rows AddTerm has written
    jphase,     \* JEDEC: "new", "build", "written"
    blueprint,  \* BuildGAL: the Blueprint
    compiledBp, \* BuildGAL: the Blueprint as it was before Compile's feedback flip
    built,      \* BuildGAL: what BuildGAL(bp) returned, and the mode it selected;
                \* after Compile, what Compile returned
    bsteps,     \* BuildGAL: the number of assignments made to the Blueprint
    bphase,     \* BuildGAL: "none", "edit", "flipped", "built"
    placing,    \* AddTerm: the GAL before and after the last call, the call's
                \* term and bounds, and the error it returned
    pcalls,     \* AddTerm: the number of calls made
    xExpr,      \* exprToTerms: the expression
    xAliases,   \* exprToTerms: the map aliases, name -> Expr
    xOut,       \* exprToTerms: what exprToTerms(xExpr, xAliases) returned
    xVisiting,  \* exprToTerms: the map visiting when toNNF has returned
    xphase      \* exprToTerms: "none", "aliases", "expr", "done"

minVars == <<terms, result, result2, phase>>
rangeVars == <<field, frLo, frHi, rangeTerms, notRangeTerms, rphase>>
compVars == <<cPins, cEqs, run1, run2, cphase>>
jedVars == <<gal, jed, jplaced, jphase>>
buildVars == <<blueprint, compiledBp, built, bsteps, bphase>>
placeVars == <<placing, pcalls>>
exprVars == <<xExpr, xAliases, xOut, xVisiting, xphase>>
vars == <<minVars, rangeVars, compVars, jedVars, buildVars, placeVars, exprVars>>

\* the range lowering at rest
IdleRange ==
    /\ field = <<>>
    /\ frLo = 0
    /\ frHi = 0
    /\ rangeTerms = <<>>
    /\ notRangeTerms = <<>>
    /\ rphase = {}

\* the minimizer at rest
IdleMin ==
    /\ terms = <<>>
    /\ result = <<>>
    /\ result2 = <<>>
    /\ phase = "in"

\* Compile not called yet, the Content empty
IdleComp ==
    /\ cPins = <<>>
    /\ cEqs = <<>>
    /\ run1 = <<>>
    /\ run2 = <<>>
    /\ cphase = "parse"

\* no GAL yet
IdleJed ==
    /\ gal = <<>>
    /\ jed = <<>>
    /\ jplaced = {}
    /\ jphase = "new"

\* no Blueprint yet
IdleBuild ==
    /\ blueprint = <<>>
    /\ compiledBp = <<>>
    /\ built = <<>>
    /\ bsteps = 0
    /\ bphase = "none"

\* AddTerm not called yet
IdlePlace ==
    /\ placing = <<>>
    /\ pcalls = 0

\* exprToTerms not called yet
IdleExpr ==
    /\ xExpr = <<>>
    /\ xAliases = <<>>
    /\ xOut = <<>>
    /\ xVisiting = {}
    /\ xphase = "none"

\* every subsystem at rest
Idle ==
    IdleMin /\ IdleRange /\ IdleComp /\ IdleJed /\ IdleBuild /\ IdlePlace /\ IdleExpr

\* what the actions of the minimizer leave alone
notMinVars == <<rangeVars, compVars, jedVars, buildVars, placeVars, exprVars>>
\* what the actions of the range lowering leave alone
notRangeVars == <<minVars, compVars, jedVars, buildVars, placeVars, exprVars>>
\* what the actions of Parse and Compile leave alone
notCompVars == <<minVars, rangeVars, jedVars, buildVars, placeVars, exprVars>>
\* what the actions of the JEDEC writer leave alone
notJedVars == <<minVars, rangeVars, compVars, buildVars, placeVars, exprVars>>
\* what the actions of the BuildGAL driver leave alone
notBuildVars == <<minVars, rangeVars, compVars, jedVars, placeVars, exprVars>>
\* what the calls of AddTerm leave alone
notPlaceVars == <<minVars, rangeVars, compVars, jedVars, buildVars, exprVars>>
\* what the calls of exprToTerms leave alone
notExprVars == <<minVars, rangeVars, compVars, jedVars, buildVars, placeVars>>

(***************************************************************************)
(* Bounds of the model                                                     *)
(***************************************************************************)
\* number of distinct variable names in the exhaustively enumerated lists
MaxVars == 3
\* longest exhaustively enumerated term list
MaxTerms == 4
\* longest term list over the full set of 22V10 signal names
MaxWideTerms == 2
\* names whose polarity varies in the terms over all 22V10 signal names
WideFree == 3

(***************************************************************************)
(* Program constants                                                       *)
(***************************************************************************)
\* expandMinterms: "if len(dcBits) > 20"
DontCareCap == 20
\* chip22v10.numPins
NumPins22V10 == 24

(***************************************************************************)
(* Helpers: machine words as naturals, slices as sequences                 *)
(***************************************************************************)
Range(s) == {s[i] : i \in DOMAIN s}

Pow2(n) == 2 ^ n

RECURSIVE BitAnd(_, _)
BitAnd(x, y) ==
    IF x = 0 \/ y = 0 THEN 0
    ELSE (x % 2) * (y % 2) + 2 * BitAnd(x \div 2, y \div 2)

BitOr(x, y) == x + y - BitAnd(x, y)
BitXor(x, y) == x + y - 2 * BitAnd(x, y)
BitAndNot(x, y) == x - BitAnd(x, y)
BitAt(x, b) == (x \div Pow2(b)) % 2

RECURSIVE OrBits(_)
\* the word with exactly the bits of the set S set (an OR of 1<<b)
OrBits(S) ==
    IF S = {} THEN 0
    ELSE LET b == CHOOSE b \in S : TRUE IN Pow2(b) + OrBits(S \ {b})

(***************************************************************************)
(* Terms and literals (part_004: type Literal, type Term)                  *)
(* A Literal is [Name, Neg]; a Term is the sequence of its Lits.           *)
(***************************************************************************)
Lit(n, neg) == [Name |-> n, Neg |-> neg]

(***************************************************************************)
(* part_002: the minimizer                                                 *)
(***************************************************************************)
\* collectVars: the sorted unique names; vars[i] has index i-1
collectVars(ts) ==
    LET seen == UNION {{t[i].Name : i \in DOMAIN t} : t \in Range(ts)}
    IN  [vars     |-> [i \in 1..Cardinality(seen) |->
                          CHOOSE v \in seen :
                              Cardinality({u \in seen : u < v}) = i - 1],
         varIndex |-> [v \in seen |-> Cardinality({u \in seen : u < v})]]

\* termToImplicant: mask |= bit for every literal, value |= bit unless negated
termToImplicant(t, varIndex) ==
    [value |-> OrBits({varIndex[t[i].Name] : i \in {j \in DOMAIN t : ~t[j].Neg}}),
     mask  |-> OrBits({varIndex[t[i].Name] : i \in DOMAIN t})]

\* expandMinterms: the set of minterms added to *out for one implicant
expandMinterms(imp, numVars) ==
    LET dcBits == {b \in 0..(numVars - 1) : BitAt(imp.mask, b) = 0}
        base   == BitAnd(imp.value, imp.mask)
    IN  IF Cardinality(dcBits) > DontCareCap
        THEN {base}
        ELSE {BitOr(base, OrBits(S)) : S \in SUBSET dcBits}

\* mutant: the test for "exactly one bit differs" inverted
tryMergeOkInverted(a, b) ==
    /\ a.mask = b.mask
    /\ LET diff == BitAnd(BitXor(a.value, b.value), a.mask)
       IN  diff # 0 /\ BitAnd(diff, diff - 1) # 0

\* tryMerge: ok iff same mask and exactly one differing care bit
tryMergeOk(a, b) ==
    /\ a.mask = b.mask
    /\ LET diff == BitAnd(BitXor(a.value, b.value), a.mask)
       IN  diff # 0 /\ BitAnd(diff, diff - 1) = 0

\* tryMerge: the merged implicant, the differing variable removed
tryMerge(a, b) ==
    LET diff == BitAnd(BitXor(a.value, b.value), a.mask)
    IN  [value |-> BitAndNot(a.value, diff), mask |-> BitAndNot(a.mask, diff)]

\* mutant: one round of merging only, what it merged taken as prime
mergeRoundsOnce(current, primeSet) ==
    LET pairs  == {p \in current \X current : tryMergeOk(p[1], p[2])}
        merged == {tryMerge(p[1], p[2]) : p \in pairs}
        used   == {p[1] : p \in pairs} \cup {p[2] : p \in pairs}
    IN  primeSet \cup (current \ used) \cup merged

RECURSIVE mergeRounds(_, _)
\* the "for len(current) > 0" loop of findPrimeImplicants
mergeRounds(current, primeSet) ==
    IF current = {} THEN primeSet
    ELSE LET pairs  == {p \in current \X current : tryMergeOk(p[1], p[2])}
             merged == {tryMerge(p[1], p[2]) : p \in pairs}
             used   == {p[1] : p \in pairs} \cup {p[2] : p \in pairs}
         IN  mergeRounds(merged, primeSet \cup (current \ used))

\* findPrimeImplicants: all primes, sorted by mask desc, then value desc
findPrimeImplicants(minterms, numVars) ==
    LET fullMask == Pow2(numVars) - 1
        current  == {[value |-> BitAnd(minterms[i], fullMask), mask |-> fullMask] :
                        i \in DOMAIN minterms}
        primeSet == mergeRounds(current, {})
        before(x, y) == \/ x.mask > y.mask
                        \/ x.mask = y.mask /\ x.value > y.value
    IN  [i \in 1..Cardinality(primeSet) |->
            CHOOSE x \in primeSet :
                Cardinality({y \in primeSet : before(y, x)}) = i - 1]

\* minimumCover, "Build coverage": covers[pi] = indices of the minterms
\* that prime pi covers
primeCovers(primes, minterms, numVars) ==
    [pi \in DOMAIN primes |->
        LET expanded == expandMinterms(primes[pi], numVars)
        IN  {mi \in DOMAIN minterms : minterms[mi] \in expanded}]

\* selecting prime pi: append it, mark its minterms covered, covers = nil
selectPrime(st, pi, primes, covers) ==
    [selected  |-> Append(st.selected, primes[pi]),
     dead      |-> st.dead \cup {pi},
     uncovered |-> st.uncovered \ covers[pi],
     changed   |-> TRUE]

RECURSIVE essentialPass(_, _, _, _, _)
\* minimumCover phase 1, one "for mi" sweep over the minterms in order
essentialPass(mi, st, primes, covers, n) ==
    IF mi > n THEN st
    ELSE IF mi \notin st.uncovered
         THEN essentialPass(mi + 1, st, primes, covers, n)
         ELSE LET live == {pi \in DOMAIN primes :
                              pi \notin st.dead /\ mi \in covers[pi]}
              IN  IF Cardinality(live) = 1
                  THEN essentialPass(mi + 1,
                           selectPrime(st, CHOOSE pi \in live : TRUE, primes, covers),
                           primes, covers, n)
                  ELSE essentialPass(mi + 1, st, primes, covers, n)

RECURSIVE essentialLoop(_, _, _, _)
\* minimumCover phase 1: "for changed := true; changed;"
essentialLoop(st, primes, covers, n) ==
    LET st2 == essentialPass(1, [st EXCEPT !.changed = FALSE], primes, covers, n)
    IN  IF st2.changed THEN essentialLoop(st2, primes, covers, n) ELSE st2

RECURSIVE greedyLoop(_, _, _)
\* minimumCover phase 2: "for uncoveredCount > 0"
greedyLoop(st, primes, covers) ==
    IF st.uncovered = {} THEN st
    ELSE LET count(pi) == Cardinality(covers[pi] \cap st.uncovered)
             live      == {pi \in DOMAIN primes : pi \notin st.dead /\ count(pi) > 0}
         IN  IF live = {} THEN st
             ELSE LET bestPI == CHOOSE pi \in live :
                                   \A q \in live :
                                       \/ count(q) < count(pi)
                                       \/ count(q) = count(pi) /\ pi <= q
                  IN  greedyLoop(selectPrime(st, bestPI, primes, covers), primes, covers)

\* minimumCover: essential primes first, then greedy
minimumCover(primes, minterms, numVars) ==
    IF Len(primes) = 0 THEN <<>>
    ELSE LET covers == primeCovers(primes, minterms, numVars)
             st0    == [selected |-> <<>>, dead |-> {},
                        uncovered |-> DOMAIN minterms, changed |-> TRUE]
             st1    == essentialLoop(st0, primes, covers, Len(minterms))
         IN  greedyLoop(st1, primes, covers).selected

\* mutant: the polarity test inverted (Neg: imp.value&bit != 0)
implicantsToTermsFlipped(imps, vs) ==
    [k \in DOMAIN imps |->
        LET care == {i \in DOMAIN vs : BitAt(imps[k].mask, i - 1) = 1}
        IN  [j \in 1..Cardinality(care) |->
                LET i == CHOOSE i \in care : Cardinality({h \in care : h < i}) = j - 1
                IN  Lit(vs[i], BitAt(imps[k].value, i - 1) = 1)]]

\* implicantsToTerms: one Term per implicant, literals in name order
implicantsToTerms(imps, vs) ==
    [k \in DOMAIN imps |->
        LET care == {i \in DOMAIN vs : BitAt(imps[k].mask, i - 1) = 1}
        IN  [j \in 1..Cardinality(care) |->
                LET i == CHOOSE i \in care : Cardinality({h \in care : h < i}) = j - 1
                IN  Lit(vs[i], BitAt(imps[k].value, i - 1) = 0)]]

\* sort.Slice of a slice of implicants by (value, mask); desc = descending.
\* Elements that compare equal are equal, so the unstable sort has one result.
sortImplicants(imps, desc) ==
    LET less(x, y) == IF desc
                      THEN \/ x.value > y.value
                           \/ x.value = y.value /\ x.mask > y.mask
                      ELSE \/ x.value < y.value
                           \/ x.value = y.value /\ x.mask < y.mask
        nLess(x) == Cardinality({i \in DOMAIN imps : less(imps[i], x)})
        nSame(x) == Cardinality({i \in DOMAIN imps : imps[i] = x})
    IN  [k \in DOMAIN imps |->
            CHOOSE x \in Range(imps) : nLess(x) < k /\ k <= nLess(x) + nSame(x)]

\* the sorted minterm list built from mintermSet
sortedMinterms(mintermSet) ==
    [i \in 1..Cardinality(mintermSet) |->
        CHOOSE m \in mintermSet : Cardinality({u \in mintermSet : u < m}) = i - 1]

\* mutant: only the first term is tested for TRUE
hasTrueTermFirst(ts) == Len(ts[1]) = 0

\* minimizeTerms, "Short-circuit if any term is TRUE"
hasTrueTerm(ts) == \E i \in DOMAIN ts : Len(ts[i]) = 0

minimizeTerms(ts) ==
    IF Len(ts) <= 1 THEN ts
    ELSE IF hasTrueTerm(ts) THEN ts
    ELSE LET cv         == collectVars(ts)
             numVars    == Len(cv.vars)
             inputImps  == [i \in DOMAIN ts |-> termToImplicant(ts[i], cv.varIndex)]
             mintermSet == UNION {expandMinterms(inputImps[i], numVars) :
                                     i \in DOMAIN inputImps}
             minterms   == sortedMinterms(mintermSet)
             primes     == findPrimeImplicants(minterms, numVars)
             selected   == minimumCover(primes, minterms, numVars)
         IN  IF numVars = 0 \/ mintermSet = {} THEN ts
             ELSE IF Len(selected) < Len(ts)
                  THEN implicantsToTerms(sortImplicants(selected, TRUE), cv.vars)
                  ELSE implicantsToTerms(sortImplicants(inputImps, FALSE), cv.vars)

(***************************************************************************)
(* Term lists handed to the minimizer.  dnf builds them: mergeTerms and    *)
(* the field lowerings never put a name twice into one term, mergeTerms    *)
(* sorts the literals by name.                                             *)
(***************************************************************************)
\* a cube over the names 1..n: name -> "1" (plain), "0" (negated), "-" (absent)
Cubes(n) == [1..n -> {"1", "0", "-"}]

\* the Term of a cube, literals sorted by name
cubeTerm(c) ==
    LET care == {v \in DOMAIN c : c[v] # "-"}
    IN  [j \in 1..Cardinality(care) |->
            LET v == CHOOSE v \in care : Cardinality({u \in care : u < v}) = j - 1
            IN  Lit(v, c[v] = "0")]

NarrowTerms == {cubeTerm(c) : c \in Cubes(MaxVars)}

\* position of a term in the enumeration order of the lists
termRank(t) ==
    LET d(v) == IF \E i \in DOMAIN t : t[i].Name = v /\ ~t[i].Neg THEN 1
                ELSE IF \E i \in DOMAIN t : t[i].Name = v THEN 2 ELSE 0
        RECURSIVE r(_)
        r(v) == IF v = 0 THEN 0 ELSE d(v) + 3 * r(v - 1)
    IN  r(MaxVars)

\* The signal pins of a 22V10: every pin but GND (12) and VCC (24) can be
\* named in an equation, so one output can depend on WideVars names.
WideVars == NumPins22V10 - 2

\* Terms over the 22V10 signal names: a single literal, or a term that
\* names every signal, the polarity free on the first WideFree names and
\* uniform on the others.
WideTerms ==
    {<<Lit(v, neg)>> : v \in 1..2, neg \in BOOLEAN}
    \cup
    {cubeTerm([v \in 1..WideVars |->
                  IF v <= WideFree THEN c[v] ELSE IF up THEN "1" ELSE "0"]) :
        c \in [1..WideFree -> {"1", "0"}], up \in BOOLEAN}

(***************************************************************************)
(* Driver of the minimizer                                                 *)
(***************************************************************************)
InitMin == Idle

\* One more term in the list under construction.  The lists are enumerated
\* up to the order of their terms (non-decreasing rank), the TRUE term
\* anywhere: beyond the TRUE short-circuit minimizeTerms reads its input
\* only through the minterm set and the sorted implicants.
AppendTerm ==
    /\ phase = "in"
    /\ Len(terms) < MaxTerms
    /\ \E t \in NarrowTerms :
          /\ IF Len(terms) = 0 \/ Len(t) = 0 THEN TRUE
             ELSE termRank(terms[Len(terms)]) <= termRank(t)
          /\ terms' = Append(terms, t)
    /\ UNCHANGED <<result, result2, phase, notMinVars>>

\* one more term over the 22V10 signal names
AppendWideTerm ==
    /\ phase = "in"
    /\ Len(terms) < MaxWideTerms
    /\ \E t \in WideTerms : terms' = Append(terms, t)
    /\ UNCHANGED <<result, result2, phase, notMinVars>>

\* a.terms = minimizeTerms(a.terms)
Minimize ==
    /\ phase = "in"
    /\ result' = minimizeTerms(terms)
    /\ phase' = "min"
    /\ UNCHANGED <<terms, result2, notMinVars>>

\* the minimizer run on its own output
MinimizeAgain ==
    /\ phase = "min"
    /\ result2' = minimizeTerms(result)
    /\ phase' = "min2"
    /\ UNCHANGED <<terms, result, notMinVars>>

NextMin == AppendTerm \/ Minimize \/ MinimizeAgain

\* term lists over up to MaxVars names
SpecMin == InitMin /\ [][NextMin]_vars

\* the narrow and the wide lists in one specification; a list is all narrow
\* or all wide
AppendEither ==
    \/ (\A i \in DOMAIN terms : terms[i] \in NarrowTerms) /\ AppendTerm
    \/ (\A i \in DOMAIN terms : terms[i] \in WideTerms) /\ AppendWideTerm

NextMinWide == AppendEither \/ Minimize \/ MinimizeAgain

SpecMinWide == InitMin /\ [][NextMinWide]_vars

NextWide == AppendWideTerm \/ Minimize \/ MinimizeAgain

\* term lists over the WideVars signal names of a 22V10
SpecWide == InitMin /\ [][NextWide]_vars

(***************************************************************************)
(* The function of a term list                                             *)
(***************************************************************************)
\* term t has a literal whose opposite is in the cube c (a set of literals)
conflicts(t, c) == \E i \in DOMAIN t : Lit(t[i].Name, ~t[i].Neg) \in c

RECURSIVE cubeImplies(_, _)
\* every assignment satisfying all literals of the cube c satisfies some
\* term of ts (Shannon expansion on the literals ts leaves open)
cubeImplies(c, ts) ==
    LET alive == {i \in DOMAIN ts : ~conflicts(ts[i], c)}
    IN  IF alive = {} THEN FALSE
        ELSE IF \E i \in alive : Range(ts[i]) \subseteq c THEN TRUE
        ELSE LET i0 == CHOOSE i \in alive : TRUE
                 l  == CHOOSE l \in Range(ts[i0]) \ c : TRUE
             IN  /\ cubeImplies(c \cup {l}, ts)
                 /\ cubeImplies(c \cup {Lit(l.Name, ~l.Neg)}, ts)

\* the OR of as and the OR of bs have the same truth table
SameFunction(as, bs) ==
    /\ \A i \in DOMAIN as : cubeImplies(Range(as[i]), bs)
    /\ \A i \in DOMAIN bs : cubeImplies(Range(bs[i]), as)

namesOf(ts) == UNION {{t[i].Name : i \in DOMAIN t} : t \in Range(ts)}

\* terms a and b name the same variables and differ in exactly one polarity
adjacentTerms(a, b) ==
    /\ {a[i].Name : i \in DOMAIN a} = {b[i].Name : i \in DOMAIN b}
    /\ Cardinality(Range(a) \ Range(b)) = 1
    /\ Cardinality(Range(a)) = Cardinality(Range(b))

hasAdjacentPair(ts) ==
    \E i, j \in DOMAIN ts : i # j /\ adjacentTerms(ts[i], ts[j])

\* term a is absorbed by term b: the literals of a strictly include those of b
absorbedBy(a, b) == Range(b) \subseteq Range(a) /\ Range(a) # Range(b)

\* a term list as a multiset
termBag(ts) == [t \in Range(ts) |-> Cardinality({i \in DOMAIN ts : ts[i] = t})]

(***************************************************************************)
(* C1.  Minimization is boolean-equivalent: for every term list given to   *)
(* minimizeTerms the OR of the returned terms has the same truth table as  *)
(* the OR of the input terms.                                              *)
(***************************************************************************)
C1_Equivalent ==
    phase # "in" => SameFunction(terms, result)

(***************************************************************************)
(* C26.  Safety cap: when a term given to minimizeTerms has more           *)
(* don't-care positions than the cap of expandMinterms, that term is in    *)
(* the result as it was given and the OR of the result has the same truth  *)
(* table as the OR of the input.                                           *)
(***************************************************************************)
\* the positions of the variable list of ts that term t leaves open
dontCaresOf(t, ts) ==
    Cardinality(namesOf(ts)) - Cardinality({t[i].Name : i \in DOMAIN t})

\* expandMinterms gives up on term t of the list ts
overCap(t, ts) == dontCaresOf(t, ts) > DontCareCap

C26_SafetyCap ==
    phase # "in" =>
        \A i \in DOMAIN terms :
            overCap(terms[i], terms) =>
                /\ \E k \in DOMAIN result : Range(result[k]) = Range(terms[i])
                /\ SameFunction(terms, result)

(***************************************************************************)
(* C2.  Minimization is non-expansive: minimizeTerms never returns more    *)
(* terms than it was given, and returns strictly fewer terms whenever the  *)
(* input contains a pair of terms differing in exactly one variable's      *)
(* polarity, whatever the other input terms are.                           *)
(***************************************************************************)
C2_StrictWheneverPair ==
    phase # "in" =>
        /\ Len(result) <= Len(terms)
        /\ hasAdjacentPair(terms) => Len(result) < Len(terms)

\* C2 as the code has it: never more terms; strictly fewer exactly when the
\* essential-plus-greedy cover is smaller than the input, which is certain
\* for an input that is just such a pair (the pair merges into one term)
C2_NonExpansive ==
    phase # "in" =>
        /\ Len(result) <= Len(terms)
        /\ (Len(terms) = 2 /\ adjacentTerms(terms[1], terms[2])) =>
               /\ Len(result) = 1
               /\ Range(result[1]) = Range(terms[1]) \cap Range(terms[2])

\* a pair has been merged into one term
C2_Witness ==
    /\ phase = "min"
    /\ Len(terms) = 2
    /\ adjacentTerms(terms[1], terms[2])
    /\ Len(terms[1]) = 2
    /\ Len(result) = 1

C4_DegenerateUnchanged ==
    (phase # "in" /\ (Len(terms) <= 1 \/ \E i \in DOMAIN terms : Len(terms[i]) = 0))
        => result = terms

\* the TRUE term in the middle of a list that could otherwise be reduced
C4_Witness ==
    /\ phase = "min"
    /\ Len(terms) = 3
    /\ Len(terms[2]) = 0
    /\ adjacentTerms(terms[1], terms[3])
    /\ result = terms

(***************************************************************************)
(* C5.  When the input terms are exactly the 2^k fully-specified minterms  *)
(* of one cube (k >= 1 names taking every combination, the other names     *)
(* fixed), minimizeTerms returns exactly one term: the fixed names with    *)
(* their fixed polarity.                                                   *)
(***************************************************************************)
\* the literals every term of ts has
fixedLits(ts) == {l \in Range(ts[1]) : \A i \in DOMAIN ts : l \in Range(ts[i])}

\* ts lists, without repetition, every minterm of the cube fixedLits(ts)
\* over the names of ts, and at least one name varies
isCubeExpansion(ts) ==
    /\ Len(ts) >= 2
    /\ \A i \in DOMAIN ts :
          /\ {ts[i][j].Name : j \in DOMAIN ts[i]} = namesOf(ts)
          /\ Len(ts[i]) = Cardinality(namesOf(ts))
    /\ \A i, j \in DOMAIN ts : i # j => ts[i] # ts[j]
    /\ Len(ts) = 2 ^ (Cardinality(namesOf(ts)) - Cardinality(fixedLits(ts)))

C5_CubeCollapses ==
    (phase # "in" /\ isCubeExpansion(terms)) =>
        /\ Len(result) = 1
        /\ Range(result[1]) = fixedLits(terms)
        /\ Len(result[1]) = Cardinality(fixedLits(terms))
        /\ \A j \in 1..(Len(result[1]) - 1) : result[1][j].Name < result[1][j + 1].Name

\* the four minterms of a cube with one fixed and two free names (scenario S7)
C5_Witness ==
    /\ phase = "min"
    /\ isCubeExpansion(terms)
    /\ Len(terms) = 4
    /\ Cardinality(fixedLits(terms)) = 1
    /\ Len(result) = 1

(***************************************************************************)
(* C6.  Absorption: when one input term's literals are a strict superset   *)
(* of another input term's literals, minimizeTerms returns strictly fewer  *)
(* terms than the input and the absorbed term is not in the result.        *)
(***************************************************************************)
hasAbsorbed(ts) == \E i, j \in DOMAIN ts : absorbedBy(ts[i], ts[j])

C6_AbsorbedAlwaysDropped ==
    (phase # "in" /\ hasAbsorbed(terms)) =>
        /\ Len(result) < Len(terms)
        /\ \A i, j \in DOMAIN terms :
              absorbedBy(terms[i], terms[j]) =>
                  \A k \in DOMAIN result : Range(result[k]) # Range(terms[i])


(***************************************************************************)
(* part_004: field ranges, F:[lo..hi] lowered to cubes                     *)
(***************************************************************************)
\* widest field of the model
MaxWidth == 3

\* a FieldBit as parseField builds it
FieldBit(name, num, has) == [Name |-> name, BitNumber |-> num, HasNumber |-> has]

\* projectValue: v masked to the width when a bit has no number, else the
\* bits of v picked by bit number, the first bit of the field on top
projectValue(f, v) ==
    LET width == Len(f)
        RECURSIVE shiftIn(_, _)
        shiftIn(i, out) ==
            IF i > width THEN out
            ELSE shiftIn(i + 1, 2 * out + BitAt(v, f[i].BitNumber))
    IN  IF width = 0 THEN 0
        ELSE IF \E i \in DOMAIN f : ~f[i].HasNumber THEN v % Pow2(width)
        ELSE shiftIn(1, 0)

RECURSIVE largestPow(_, _)
\* maxBlockSize: "for (maxPow << 1) <= remaining"
largestPow(maxPow, remaining) ==
    IF 2 * maxPow <= remaining THEN largestPow(2 * maxPow, remaining) ELSE maxPow

RECURSIVE lowestBit(_)
\* lo & -lo, lo > 0
lowestBit(x) == IF x % 2 = 1 THEN 1 ELSE 2 * lowestBit(x \div 2)

\* maxBlockSize: the largest aligned power-of-two block at lo within remaining
maxBlockSize(lo, remaining) ==
    IF remaining = 0 THEN 0
    ELSE LET maxPow == largestPow(1, remaining)
         IN  IF lo = 0 THEN maxPow
             ELSE IF lowestBit(lo) < maxPow THEN lowestBit(lo) ELSE maxPow

RECURSIVE log2Up(_, _)
\* rangeToCubes: "for (1 << k) < blockSize { k++ }"
log2Up(k, blockSize) == IF Pow2(k) < blockSize THEN log2Up(k + 1, blockSize) ELSE k

RECURSIVE rangeToCubes(_, _, _)
\* rangeToCubes: the cubes (mask, value) of the interval [lo, hi]
rangeToCubes(lo, hi, width) ==
    IF lo > hi THEN <<>>
    ELSE LET blockSize == maxBlockSize(lo, hi - lo + 1)
             k         == log2Up(0, blockSize)
             mask      == BitAndNot(Pow2(width) - 1, Pow2(k) - 1)
         IN  <<[mask |-> mask, value |-> lo]>> \o rangeToCubes(lo + blockSize, hi, width)

\* fieldRangeTerms: the Term of one cube, a literal per care bit, bit 0 first
cubeToTerm(c, f) ==
    LET width == Len(f)
        care  == {bit \in 0..(width - 1) : BitAt(c.mask, bit) = 1}
    IN  [j \in 1..Cardinality(care) |->
            LET bit == CHOOSE b \in care : Cardinality({x \in care : x < b}) = j - 1
            IN  Lit(f[width - bit].Name, BitAt(c.value, bit) = 0)]

\* mutant: the upper complement range starts at projHi
negatedRangesFromHi(projLo, projHi, maxVal) ==
    (IF projLo > 0 THEN <<<<0, projLo - 1>>>> ELSE <<>>)
    \o (IF projHi < maxVal THEN <<<<projHi, maxVal>>>> ELSE <<>>)

\* fieldRangeTerms, negated: the ranges below projLo and above projHi
negatedRanges(projLo, projHi, maxVal) ==
    (IF projLo > 0 THEN <<<<0, projLo - 1>>>> ELSE <<>>)
    \o (IF projHi < maxVal THEN <<<<projHi + 1, maxVal>>>> ELSE <<>>)

RECURSIVE rangesToTerms(_, _)
\* fieldRangeTerms: "for _, r := range ranges", the terms of every cube
rangesToTerms(ranges, f) ==
    IF Len(ranges) = 0 THEN <<>>
    ELSE LET cubes == rangeToCubes(ranges[1][1], ranges[1][2], Len(f))
         IN  [k \in DOMAIN cubes |-> cubeToTerm(cubes[k], f)]
             \o rangesToTerms(Tail(ranges), f)

\* fieldRangeTerms for a declared field of at least one bit
fieldRangeTerms(f, lo, hi, negated) ==
    LET width  == Len(f)
        pl     == projectValue(f, lo)
        ph     == projectValue(f, hi)
        projLo == IF pl > ph THEN ph ELSE pl
        projHi == IF pl > ph THEN pl ELSE ph
        maxVal == Pow2(width) - 1
        ranges == IF ~negated THEN <<<<projLo, projHi>>>>
                  ELSE negatedRanges(projLo, projHi, maxVal)
    IN  rangesToTerms(ranges, f)


(***************************************************************************)
(* Driver of the range lowering: FIELD f = [...]; y = f:[lo..hi] and       *)
(* y = !(f:[lo..hi])                                                       *)
(***************************************************************************)
\* the orders in which a field of width w can list the bits 0..w-1
BitOrders(w) == {p \in [1..w -> 0..(w - 1)] : \A i, j \in 1..w : i # j => p[i] # p[j]}

\* Fields as parseField builds them, the bit at position i named i:
\* [A2..A0], [A0..A2], [A1,A2,A0], ... (every bit numbered), [x,y,z] (no bit
\* numbered), [x,A1,A0] (first bit without a number)
Fields ==
    UNION {
        {[i \in 1..w |-> FieldBit(i, p[i], TRUE)] : p \in BitOrders(w)}
        \cup {[i \in 1..w |-> FieldBit(i, 0, FALSE)]}
        \cup {[i \in 1..w |-> IF i = 1 THEN FieldBit(i, 0, FALSE)
                                       ELSE FieldBit(i, w - i, TRUE)]}
        : w \in 1..MaxWidth}

InitRange == Idle

\* parseField: FIELD f = [...]
ParseField ==
    /\ rphase = {}
    /\ \E f \in Fields : field' = f
    /\ rphase' = {"field"}
    /\ UNCHANGED <<frLo, frHi, rangeTerms, notRangeTerms, notRangeVars>>

\* parsePrimary: f:[lo..hi], written low to high, both within the width
ParseRange ==
    /\ rphase = {"field"}
    /\ \E lo, hi \in 0..(Pow2(Len(field)) - 1) :
          /\ lo <= hi
          /\ frLo' = lo
          /\ frHi' = hi
    /\ rphase' = rphase \cup {"range"}
    /\ UNCHANGED <<field, rangeTerms, notRangeTerms, notRangeVars>>

\* dnf, case ExprFieldRange
LowerRange ==
    /\ "range" \in rphase
    /\ "pos" \notin rphase
    /\ rangeTerms' = fieldRangeTerms(field, frLo, frHi, FALSE)
    /\ rphase' = rphase \cup {"pos"}
    /\ UNCHANGED <<field, frLo, frHi, notRangeTerms, notRangeVars>>

\* dnf, case ExprNot of an ExprFieldRange
LowerNotRange ==
    /\ "range" \in rphase
    /\ "neg" \notin rphase
    /\ notRangeTerms' = fieldRangeTerms(field, frLo, frHi, TRUE)
    /\ rphase' = rphase \cup {"neg"}
    /\ UNCHANGED <<field, frLo, frHi, rangeTerms, notRangeVars>>

NextRange == ParseField \/ ParseRange \/ LowerRange \/ LowerNotRange

SpecRange == InitRange /\ [][NextRange]_vars

(***************************************************************************)
(* The value of a term list under an assignment of the field bits          *)
(***************************************************************************)
\* some term of ts has all its literals true when exactly the names in
\* trueNames are 1
termsHold(ts, trueNames) ==
    \E k \in DOMAIN ts :
        \A j \in DOMAIN ts[k] : (ts[k][j].Name \in trueNames) = ~ts[k][j].Neg

\* the field bits that are 1 when the user-space integer v is substituted:
\* a numbered bit An takes bit n of v, the bits of a field without numbers
\* take the bits of v in the order written, the first on top
userBitsSet(f, v) ==
    {f[i].Name : i \in {j \in DOMAIN f :
        IF \A h \in DOMAIN f : f[h].HasNumber
        THEN BitAt(v, f[j].BitNumber) = 1
        ELSE BitAt(v, Len(f) - j) = 1}}

\* the field bits that are 1 when the bits are the w-bit value x, the first
\* bit of the field on top
fieldBitsSet(f, x) == {f[i].Name : i \in {j \in DOMAIN f : BitAt(x, Len(f) - j) = 1}}

(***************************************************************************)
(* C7.  For any field (bits numbered or not) and any range F:[lo..hi], the *)
(* OR of the terms of fieldRangeTerms (not negated) is true for exactly    *)
(* the user-space integers v in [lo, hi] when v's bits are substituted for *)
(* the field bits, and false for every other value.                        *)
(***************************************************************************)
C7_RangeExact ==
    "pos" \in rphase =>
        \A v \in 0..(Pow2(Len(field)) - 1) :
            termsHold(rangeTerms, userBitsSet(field, v)) = (frLo <= v /\ v <= frHi)

(***************************************************************************)
(* C8.  For a field of width w the terms of a negated field range are the  *)
(* exact complement, inside [0, 2^w - 1], of the terms of the same range   *)
(* not negated: every w-bit value satisfies exactly one of the two lists,  *)
(* including lo = 0, hi = 2^w - 1 and the full range, whose negation is    *)
(* the empty list.                                                         *)
(***************************************************************************)
C8_Complement ==
    {"pos", "neg"} \subseteq rphase =>
        /\ \A x \in 0..(Pow2(Len(field)) - 1) :
              termsHold(rangeTerms, fieldBitsSet(field, x))
                  # termsHold(notRangeTerms, fieldBitsSet(field, x))
        /\ (frLo = 0 /\ frHi = Pow2(Len(field)) - 1) => notRangeTerms = <<>>

\* a range strictly inside a 3-bit field: its negation has terms on both sides
C8_Witness ==
    /\ {"pos", "neg"} \subseteq rphase
    /\ Len(field) = 3
    /\ frLo = 2
    /\ frHi = 5
    /\ Len(rangeTerms) = 2
    /\ Len(notRangeTerms) = 2


(***************************************************************************)
(* part_000, gal.go: the GAL22V10                                          *)
(***************************************************************************)
\* chip22v10.minOLMC, maxOLMC, numCols
MinOLMC22V10 == 14
MaxOLMC22V10 == 23
NumCols22V10 == 44

\* chip22v10.olmcMap: first AND-array row of each OLMC
olmcMap22v10 == <<122, 111, 98, 83, 66, 49, 34, 21, 10, 1>>

\* Chip.PinToOLMC
PinToOLMC(pin) ==
    IF pin < MinOLMC22V10 \/ pin > MaxOLMC22V10
    THEN [ok |-> FALSE, olmc |-> 0]
    ELSE [ok |-> TRUE, olmc |-> pin - MinOLMC22V10]

\* pinToCol22v10: the AND-array column of a pin; the power pins have none
pinToCol22v10(pin) ==
    IF pin \in 1..11 THEN 4 * (pin - 1)
    ELSE IF pin = 13 THEN 42
    ELSE IF pin \in 14..23 THEN 38 - 4 * (pin - 14)
    ELSE -1

(***************************************************************************)
(* part_004: Compile, for a GAL22V10                                       *)
(***************************************************************************)
\* the names of the power pins in the symbol table
NameVCC == 98
NameGND == 99

\* the names of the global signals AR and SP
NameAR == 96
NameSP == 97

\* isGlobalSignal
isGlobalSignal(name) == name \in {NameAR, NameSP}

Symbol(pin, activeLow) == [Pin |-> pin, ActiveLow |-> activeLow]

\* m[k] = v on a Go map
put(m, k, v) == [x \in DOMAIN m \cup {k} |-> IF x = k THEN v ELSE m[x]]

\* the orders a range over a map with the keys S can take
Orders(S) ==
    {o \in [1..Cardinality(S) -> S] : \A i, j \in 1..Cardinality(S) : i # j => o[i] # o[j]}

RECURSIVE pinLoop(_, _, _, _)
\* "for pin, def := range c.Pins", the pins visited in the given order
pinLoop(pins, order, i, symbols) ==
    IF i > Len(order) THEN [err |-> <<>>, symbols |-> symbols]
    ELSE LET pin == order[i]
         IN  IF pin < 1 \/ pin > NumPins22V10
             THEN [err |-> <<"pin out of range", pin>>, symbols |-> symbols]
             ELSE pinLoop(pins, order, i + 1,
                          put(symbols, pins[pin].Name,
                              Symbol(pin, pins[pin].ActiveLow)))

\* "Add power pins"
addPowerPins(symbols) ==
    put(put(symbols, NameVCC, Symbol(NumPins22V10, FALSE)),
        NameGND, Symbol(NumPins22V10 \div 2, FALSE))

RECURSIVE aliasLoop(_, _, _, _)
\* the first loop over c.Equations: an active-low LHS that is neither a pin
\* nor a global signal is an error; an equation whose LHS is no symbol
\* defines an alias
aliasLoop(eqs, i, symbols, aliases) ==
    IF i > Len(eqs) THEN [err |-> <<>>, aliases |-> aliases]
    ELSE IF eqs[i].Low /\ eqs[i].LHS \notin DOMAIN symbols
            /\ ~isGlobalSignal(eqs[i].LHS)
    THEN [err |-> <<"line", eqs[i].Line, "active-low output is not a defined pin",
                    eqs[i].LHS>>,
          aliases |-> aliases]
    ELSE aliasLoop(eqs, i + 1, symbols,
                   IF eqs[i].LHS \notin DOMAIN symbols /\ ~eqs[i].Append
                      /\ ~isGlobalSignal(eqs[i].LHS) /\ eqs[i].Ext = ""
                   THEN put(aliases, eqs[i].LHS, eqs[i].RHS)
                   ELSE aliases)

\* ast.go: an Expr is its kind, the name of an ExprIdent or the value of an
\* ExprConst, and its operands
ExprConst(v) == [op |-> "const", n |-> IF v THEN 1 ELSE 0, kids |-> <<>>]
ExprIdent(name) == [op |-> "ident", n |-> name, kids |-> <<>>]
ExprNot(x) == [op |-> "not", n |-> 0, kids |-> <<x>>]
ExprAnd(a, b) == [op |-> "and", n |-> 0, kids |-> <<a, b>>]
ExprOr(a, b) == [op |-> "or", n |-> 0, kids |-> <<a, b>>]
ExprXor(a, b) == [op |-> "xor", n |-> 0, kids |-> <<a, b>>]
\* the nil Expr of an error return
NilExpr == [op |-> "nil", n |-> 0, kids |-> <<>>]

\* "visiting[e.Name] = true"
enterAlias(visiting, name) == visiting \cup {name}

\* an expansion that leaves the name in the visiting set
leaveAliasKeep(visiting, name) == visiting

\* "delete(visiting, e.Name)"
leaveAlias(visiting, name) == visiting \ {name}

RECURSIVE toNNF(_, _, _, _)
\* toNNF: negations are pushed to the identifiers, aliases are substituted,
\* XOR is rewritten, a cycle of aliases is an error.  The map visiting is
\* shared by all calls: the result carries it as the call leaves it.
toNNF(expr, neg, aliases, visiting) ==
    IF expr.op = "const"
    THEN [err |-> <<>>, e |-> IF neg THEN ExprConst(expr.n = 0) ELSE expr,
          visiting |-> visiting]
    ELSE IF expr.op = "ident"
    THEN IF expr.n \in DOMAIN aliases
         THEN IF expr.n \in visiting
              THEN [err |-> <<"cyclic alias", expr.n>>, e |-> NilExpr,
                    visiting |-> visiting]
              ELSE LET out == toNNF(aliases[expr.n], neg, aliases,
                                    enterAlias(visiting, expr.n))
                   IN  [err |-> out.err, e |-> out.e,
                        visiting |-> leaveAlias(out.visiting, expr.n)]
         ELSE [err |-> <<>>, e |-> IF neg THEN ExprNot(expr) ELSE expr,
               visiting |-> visiting]
    ELSE IF expr.op = "not"
    THEN toNNF(expr.kids[1], ~neg, aliases, visiting)
    ELSE IF expr.op \in {"and", "or"}
    THEN LET left == toNNF(expr.kids[1], neg, aliases, visiting)
         IN  IF left.err # <<>> THEN left
             ELSE LET right == toNNF(expr.kids[2], neg, aliases, left.visiting)
                  IN  IF right.err # <<>> THEN right
                      ELSE [err |-> <<>>,
                            e   |-> IF (expr.op = "and") = neg
                                    THEN ExprOr(left.e, right.e)
                                    ELSE ExprAnd(left.e, right.e),
                            visiting |-> right.visiting]
    ELSE IF expr.op = "xor"
    THEN LET A == expr.kids[1]
             B == expr.kids[2]
             left == toNNF(IF neg THEN ExprAnd(A, B) ELSE ExprAnd(A, ExprNot(B)),
                           FALSE, aliases, visiting)
         IN  IF left.err # <<>> THEN left
             ELSE LET right == toNNF(IF neg THEN ExprAnd(ExprNot(A), ExprNot(B))
                                            ELSE ExprAnd(ExprNot(A), B),
                                     FALSE, aliases, left.visiting)
                  IN  IF right.err # <<>> THEN right
                      ELSE [err |-> <<>>, e |-> ExprOr(left.e, right.e),
                            visiting |-> right.visiting]
    ELSE [err |-> <<>>, e |-> expr, visiting |-> visiting]

RECURSIVE mergeLoop(_, _, _)
\* mergeTerms, "for _, l := range b.Lits": m is the map name -> Neg
mergeLoop(b, i, m) ==
    IF i > Len(b) THEN [ok |-> TRUE, m |-> m]
    ELSE IF b[i].Name \in DOMAIN m
    THEN IF m[b[i].Name] # b[i].Neg THEN [ok |-> FALSE, m |-> m]
         ELSE mergeLoop(b, i + 1, m)
    ELSE mergeLoop(b, i + 1, put(m, b[i].Name, b[i].Neg))

\* the literals of a map name -> Neg, sorted by name
sortedLits(m) ==
    LET rank(n) == Cardinality({x \in DOMAIN m : x < n}) + 1
    IN  [k \in 1..Cardinality(DOMAIN m) |->
            LET n == CHOOSE n \in DOMAIN m : rank(n) = k IN Lit(n, m[n])]

\* a merge that keeps the polarity of a where b has the other one
mergeTermsNoConflict(a, b) ==
    LET names == {a[i].Name : i \in DOMAIN a} \cup {b[i].Name : i \in DOMAIN b}
        neg(n) == IF \E i \in DOMAIN a : a[i].Name = n
                  THEN a[CHOOSE i \in DOMAIN a : a[i].Name = n].Neg
                  ELSE b[CHOOSE i \in DOMAIN b : b[i].Name = n].Neg
    IN  [ok |-> TRUE, t |-> sortedLits([n \in names |-> neg(n)])]

\* mergeTerms: the literals of both terms, sorted by name; not ok when the
\* terms have a name in opposite polarities
mergeTerms(a, b) ==
    LET last(n) == CHOOSE i \in DOMAIN a :
                      a[i].Name = n /\ \A j \in DOMAIN a : a[j].Name = n => j <= i
        mA == [n \in {a[i].Name : i \in DOMAIN a} |-> a[last(n)].Neg]
        r  == mergeLoop(b, 1, mA)
    IN  IF r.ok THEN [ok |-> TRUE, t |-> sortedLits(r.m)]
        ELSE [ok |-> FALSE, t |-> <<>>]

\* andDNF: "for _, tb := range b { for _, ta := range a {"
andDNF(a, b) ==
    IF Len(a) = 0 \/ Len(b) = 0 THEN <<>>
    ELSE LET pairs == [k \in 1..(Len(a) * Len(b)) |->
                          mergeTerms(a[((k - 1) % Len(a)) + 1],
                                     b[((k - 1) \div Len(a)) + 1])]
             isOk(m) == m.ok
             kept  == SelectSeq(pairs, isOk)
         IN  [k \in DOMAIN kept |-> kept[k].t]

RECURSIVE dnf(_)
\* dnf of an expression in NNF over constants and identifiers
dnf(expr) ==
    IF expr.op = "const"
    THEN [err |-> <<>>, terms |-> IF expr.n = 1 THEN <<<<>>>> ELSE <<>>]
    ELSE IF expr.op = "ident"
    THEN [err |-> <<>>, terms |-> <<<<Lit(expr.n, FALSE)>>>>]
    ELSE IF expr.op = "not"
    THEN IF expr.kids[1].op = "ident"
         THEN [err |-> <<>>, terms |-> <<<<Lit(expr.kids[1].n, TRUE)>>>>]
         ELSE [err |-> <<"unsupported negation", expr.kids[1].op>>, terms |-> <<>>]
    ELSE IF expr.op \in {"and", "or"}
    THEN LET left == dnf(expr.kids[1])
         IN  IF left.err # <<>> THEN left
             ELSE LET right == dnf(expr.kids[2])
                  IN  IF right.err # <<>> THEN right
                      ELSE [err   |-> <<>>,
                            terms |-> IF expr.op = "and"
                                      THEN andDNF(left.terms, right.terms)
                                      ELSE left.terms \o right.terms]
    ELSE [err |-> <<"unsupported expression", expr.op>>, terms |-> <<>>]

\* exprToTerms, from the outcome of toNNF: its error, or dnf
termsOfNNF(nnf) ==
    IF nnf.err # <<>> THEN [err |-> nnf.err, terms |-> <<>>] ELSE dnf(nnf.e)

\* exprToTerms: toNNF, then dnf
exprToTerms(expr, aliases) == termsOfNNF(toNNF(expr, FALSE, aliases, {}))

\* mapTermsToPins: the first literal whose name is no symbol is the error
mapTermsToPins(ts, symbols) ==
    LET bad == UNION {{<<k, j>> : j \in {x \in DOMAIN ts[k] :
                                            ts[k][x].Name \notin DOMAIN symbols}} :
                      k \in DOMAIN ts}
    IN  IF bad # {}
        THEN LET b == CHOOSE b \in bad :
                          \A c \in bad : b[1] < c[1] \/ (b[1] = c[1] /\ b[2] <= c[2])
             IN  [err |-> <<"unknown symbol", ts[b[1]][b[2]].Name>>, rows |-> <<>>]
        ELSE [err  |-> <<>>,
              rows |-> [k \in DOMAIN ts |->
                          [j \in DOMAIN ts[k] |->
                              [Pin |-> symbols[ts[k][j].Name].Pin,
                               Neg |-> ts[k][j].Neg # symbols[ts[k][j].Name].ActiveLow]]]]

\* "Polarity optimization": the top-level expression is a NOT and the
\* equation is neither APPEND nor .OE nor registered
polarityFlipped(eq) ==
    eq.RHS.op = "not" /\ ~eq.Append /\ eq.Ext # "E" /\ eq.Ext # "R"

\* "Mark feedback use based on actual terms": the OLMCs whose pin a literal
\* of the terms names
feedbackOf(ts, symbols) ==
    {PinToOLMC(symbols[n].Pin).olmc :
        n \in {m \in namesOf(ts) \cap DOMAIN symbols : PinToOLMC(symbols[m].Pin).ok}}

\* the second loop, "Handle global AR/SP signals", from the pin terms g
placeGlobal(eq, st, g) ==
    IF g.err # <<>> THEN [st EXCEPT !.err = <<"line", eq.Line>> \o g.err]
    ELSE IF eq.LHS = NameAR
    THEN [st EXCEPT !.AR = <<[Line |-> eq.Line, Pins |-> g.rows]>>]
    ELSE [st EXCEPT !.SP = <<[Line |-> eq.Line, Pins |-> g.rows]>>]

\* the second loop, "Handle global AR/SP signals", from the terms ct
compileGlobal(eq, symbols, st, ct) ==
    IF ct.err # <<>> THEN [st EXCEPT !.err = <<"line", eq.Line>> \o ct.err]
    ELSE placeGlobal(eq, st, mapTermsToPins(ct.terms, symbols))

\* the second loop, an output equation, from the terms ct of the expression
\* compiled: the equation with its terms and polarity, and the OLMCs whose
\* pin a term reads
compileOutput(eq, symbols, st, ct) ==
    IF ct.err # <<>> THEN [st EXCEPT !.err = <<"line", eq.Line>> \o ct.err]
    ELSE [st EXCEPT
             !.compiled = Append(@, [eq         |-> eq,
                                     terms      |-> ct.terms,
                                     activeLow  |-> polarityFlipped(eq) # eq.Low,
                                     outputName |-> eq.LHS,
                                     extension  |-> eq.Ext]),
             !.feedback = @ \cup feedbackOf(ct.terms, symbols)]

\* one turn of the second loop over c.Equations
compileStep(eq, symbols, aliases, st) ==
    IF isGlobalSignal(eq.LHS)
    THEN compileGlobal(eq, symbols, st, exprToTerms(eq.RHS, aliases))
    ELSE IF eq.LHS \notin DOMAIN symbols THEN st
    ELSE compileOutput(eq, symbols, st,
             exprToTerms(IF polarityFlipped(eq) THEN eq.RHS.kids[1] ELSE eq.RHS,
                         aliases))

RECURSIVE compileLoop(_, _, _, _, _)
\* the second loop over c.Equations, left at the first error
compileLoop(eqs, i, symbols, aliases, st) ==
    IF i > Len(eqs) \/ st.err # <<>> THEN st
    ELSE compileLoop(eqs, i + 1, symbols, aliases,
                     compileStep(eqs[i], symbols, aliases, st))

\* the redefinition test that forgets APPEND
redefinedAlways(accum, olmc, item) == olmc \in DOMAIN accum

\* "if a, exists := accum[olmc]; exists { if !eq.Append {": the output is
\* defined again without APPEND
redefined(accum, olmc, item) == olmc \in DOMAIN accum /\ ~item.eq.Append

RECURSIVE accumLoop(_, _, _, _)
\* "for _, item := range compiled": the terms of each output, keyed by OLMC
accumLoop(compiled, i, symbols, st) ==
    IF i > Len(compiled) THEN st
    ELSE LET item == compiled[i]
             lhs  == item.outputName
             line == item.eq.Line
         IN  IF lhs \notin DOMAIN symbols
             THEN [st EXCEPT !.err = <<"line", line, "unknown output", lhs>>]
             ELSE LET sym == symbols[lhs]
                      po  == PinToOLMC(sym.Pin)
                  IN  IF ~po.ok
                      THEN [st EXCEPT !.err =
                               <<"line", line, "is not a valid output pin", lhs>>]
                      ELSE IF item.extension = "E"
                      THEN IF po.olmc \in DOMAIN st.oeAccum
                           THEN [st EXCEPT !.err =
                                    <<"line", line, "OE already defined", lhs>>]
                           ELSE accumLoop(compiled, i + 1, symbols,
                                    [st EXCEPT !.oeAccum =
                                        put(@, po.olmc, [terms |-> item.terms,
                                                         line  |-> line,
                                                         lhs   |-> lhs])])
                      ELSE IF redefined(st.accum, po.olmc, item)
                      THEN [st EXCEPT !.err = <<"line", line, "already defined", lhs>>]
                      ELSE IF po.olmc \in DOMAIN st.accum
                      THEN accumLoop(compiled, i + 1, symbols,
                               [st EXCEPT !.accum[po.olmc].terms = @ \o item.terms])
                      ELSE accumLoop(compiled, i + 1, symbols,
                               [st EXCEPT !.accum =
                                   put(@, po.olmc,
                                       [terms     |-> item.terms,
                                        activeLow |-> item.activeLow \/ sym.ActiveLow,
                                        line      |-> line,
                                        lhs       |-> lhs,
                                        extension |-> item.extension])])

RECURSIVE placeLoop(_, _, _, _, _)
\* "for olmc, a := range accum", the OLMCs visited in the given order
placeLoop(accum, order, i, symbols, bp) ==
    IF i > Len(order) THEN bp
    ELSE LET olmc == order[i]
             a    == accum[olmc]
             g    == mapTermsToPins(minimizeTerms(a.terms), symbols)
         IN  IF g.err # <<>>
             THEN [bp EXCEPT !.err = <<"line", a.line>> \o g.err]
             ELSE placeLoop(accum, order, i + 1, symbols,
                      [bp EXCEPT !.Output =
                          put(@, olmc, [Line   |-> a.line,
                                        Pins   |-> g.rows,
                                        Active |-> IF a.activeLow THEN "ActiveLow"
                                                                  ELSE "ActiveHigh"]),
                                 !.Registered =
                                     IF a.extension = "R" THEN @ \cup {olmc} ELSE @])

RECURSIVE placeOELoop(_, _, _, _, _)
\* "for olmc, oe := range oeAccum", the OLMCs visited in the given order
placeOELoop(oeAccum, order, i, symbols, bp) ==
    IF i > Len(order) THEN bp
    ELSE LET olmc == order[i]
             oe   == oeAccum[olmc]
             g    == mapTermsToPins(minimizeTerms(oe.terms), symbols)
         IN  IF g.err # <<>>
             THEN [bp EXCEPT !.err = <<"line", oe.line>> \o g.err]
             ELSE placeOELoop(oeAccum, order, i + 1, symbols,
                      [bp EXCEPT !.OETerm =
                          put(@, olmc, [Line |-> oe.line, Pins |-> g.rows])])

\* an error return of Compile
Failed(err) ==
    [err |-> err, Output |-> <<>>, OETerm |-> <<>>, Feedback |-> {}, Registered |-> {},
     AR |-> <<>>, SP |-> <<>>]

\* "Place OE terms": the blueprint with the OE terms, or the error
placeOE(oeAccum, olmcOrder, symbols, bp) ==
    LET keepOE(o) == o \in DOMAIN oeAccum
        bpOE == placeOELoop(oeAccum, SelectSeq(olmcOrder, keepOE), 1, symbols, bp)
    IN  IF bpOE.err # <<>> THEN Failed(bpOE.err) ELSE bpOE

\* Compile from "Place OE terms" on, bp the blueprint with the outputs
compileFromOutputs(symbols, ac, olmcOrder, bp) ==
    IF bp.err # <<>> THEN Failed(bp.err)
    ELSE placeOE(ac.oeAccum, olmcOrder, symbols, bp)

\* Compile from "for olmc, a := range accum" on, cl the outcome of the
\* second loop and ac the accumulated terms
compileFromAccum(symbols, cl, ac, olmcOrder) ==
    IF ac.err # <<>> THEN Failed(ac.err)
    ELSE LET keep(o) == o \in DOMAIN ac.accum
         IN  compileFromOutputs(symbols, ac, olmcOrder,
                 placeLoop(ac.accum, SelectSeq(olmcOrder, keep), 1, symbols,
                           [err |-> <<>>, Output |-> <<>>, OETerm |-> <<>>,
                            Feedback |-> cl.feedback, Registered |-> {},
                            AR |-> cl.AR, SP |-> cl.SP]))

\* Compile from "Accumulate all terms per output" on
compileFromTerms(symbols, cl, olmcOrder) ==
    IF cl.err # <<>> THEN Failed(cl.err)
    ELSE compileFromAccum(symbols, cl,
             accumLoop(cl.compiled, 1, symbols,
                       [err |-> <<>>, accum |-> <<>>, oeAccum |-> <<>>]),
             olmcOrder)

\* Compile from its second loop over c.Equations on, al the aliases
compileFromAliases(symbols, al, eqs, olmcOrder) ==
    IF al.err # <<>> THEN Failed(al.err)
    ELSE compileFromTerms(symbols,
             compileLoop(eqs, 1, symbols, al.aliases,
                         [err |-> <<>>, compiled |-> <<>>, feedback |-> {},
                          AR |-> <<>>, SP |-> <<>>]),
             olmcOrder)

\* Compile from "Add power pins" on, pl the outcome of the loop over c.Pins
compileFromPins(pl, eqs, olmcOrder) ==
    IF pl.err # <<>> THEN Failed(pl.err)
    ELSE compileFromAliases(addPowerPins(pl.symbols),
                            aliasLoop(eqs, 1, addPowerPins(pl.symbols), <<>>),
                            eqs, olmcOrder)

\* Compile(c): pinOrder is the order the runtime iterates c.Pins in,
\* olmcOrder the order it iterates accum in (the OLMCs not in accum skipped).
\* The result is the error, or the blueprint handed to BuildGAL.
Compile(pins, eqs, pinOrder, olmcOrder) ==
    compileFromPins(pinLoop(pins, pinOrder, 1, <<>>), eqs, olmcOrder)

\* setCoreEqns, AddTerm, setAnd: the AND-array fuses the output terms of a
\* blueprint clear; row 0 of an OLMC is its OE row
outputFuses(bp) ==
    UNION {UNION {{(olmcMap22v10[olmc + 1] + r) * NumCols22V10
                      + pinToCol22v10(bp.Output[olmc].Pins[r][j].Pin)
                      + (IF bp.Output[olmc].Pins[r][j].Neg THEN 1 ELSE 0) :
                   j \in DOMAIN bp.Output[olmc].Pins[r]} :
               r \in DOMAIN bp.Output[olmc].Pins} :
           olmc \in DOMAIN bp.Output}


(***************************************************************************)
(* Driver of exprToTerms: a map of aliases and an expression are parsed,   *)
(* and exprToTerms is called on them.  The names a b c d are the numbers   *)
(* 1 2 3 4; c and d may be aliases.                                        *)
(***************************************************************************)
ExprLeaves ==
    {ExprConst(TRUE), ExprConst(FALSE), ExprIdent(1), ExprIdent(2), ExprIdent(3)}

\* a leaf or its negation
ExprSmall == ExprLeaves \cup {ExprNot(l) : l \in ExprLeaves}

BinaryOn(A, B) ==
    {ExprAnd(x, y) : x \in A, y \in B} \cup {ExprOr(x, y) : x \in A, y \in B}
        \cup {ExprXor(x, y) : x \in A, y \in B}

ExprFlat == ExprSmall \cup BinaryOn(ExprLeaves, ExprLeaves)

\* the expressions of the driver: up to two operators deep
ExprChoices ==
    ExprFlat \cup {ExprNot(e) : e \in ExprFlat} \cup BinaryOn(ExprFlat, ExprSmall)

\* the right-hand sides of c: a, !d, c, d & a, d $ d
AliasBodiesC ==
    {ExprIdent(1), ExprNot(ExprIdent(4)), ExprIdent(3),
     ExprAnd(ExprIdent(4), ExprIdent(1)), ExprXor(ExprIdent(4), ExprIdent(4))}

\* the right-hand sides of d: b, c, !b & a
AliasBodiesD ==
    {ExprIdent(2), ExprIdent(3), ExprAnd(ExprNot(ExprIdent(2)), ExprIdent(1))}

\* the maps of aliases: c and d each defined or not
AliasChoices ==
    {<<>>} \cup {put(<<>>, 3, x) : x \in AliasBodiesC}
           \cup {put(<<>>, 4, y) : y \in AliasBodiesD}
           \cup {put(put(<<>>, 3, x), 4, y) : x \in AliasBodiesC, y \in AliasBodiesD}

\* the first loop of Compile has filled aliases
ParseAliases ==
    /\ xphase = "none"
    /\ xAliases' \in AliasChoices
    /\ xphase' = "aliases"
    /\ UNCHANGED <<xExpr, xOut, xVisiting, notExprVars>>

\* parseExpr has returned the expression of an equation
ParseExpr ==
    /\ xphase = "aliases"
    /\ xExpr' \in ExprChoices
    /\ xphase' = "expr"
    /\ UNCHANGED <<xAliases, xOut, xVisiting, notExprVars>>

\* exprToTerms(expr, fields, aliases)
ExprToTerms ==
    /\ xphase = "expr"
    /\ xOut' = exprToTerms(xExpr, xAliases)
    /\ xVisiting' = toNNF(xExpr, FALSE, xAliases, {}).visiting
    /\ xphase' = "done"
    /\ UNCHANGED <<xExpr, xAliases, notExprVars>>

NextExpr == ParseAliases \/ ParseExpr \/ ExprToTerms

SpecExpr == Idle /\ [][NextExpr]_vars

(***************************************************************************)
(* The meaning of an expression                                            *)
(***************************************************************************)
RECURSIVE refs(_)
\* the names an expression mentions
refs(e) ==
    IF e.op = "ident" THEN {e.n}
    ELSE UNION {refs(e.kids[k]) : k \in DOMAIN e.kids}

RECURSIVE reach(_, _)
\* the names reached from the names N through the aliases
reach(N, aliases) ==
    LET more == N \cup UNION {refs(aliases[n]) : n \in N \cap DOMAIN aliases}
    IN  IF more = N THEN N ELSE reach(more, aliases)

\* an alias reachable from e refers to itself, directly or through others
CyclicFrom(e, aliases) ==
    \E n \in reach(refs(e), aliases) \cap DOMAIN aliases :
        n \in reach(refs(aliases[n]), aliases)

RECURSIVE evalExpr(_, _, _)
\* the value of e where the names of the set env are 1 and the others 0, an
\* alias standing for its expression
evalExpr(e, aliases, env) ==
    IF e.op = "const" THEN e.n = 1
    ELSE IF e.op = "ident"
    THEN IF e.n \in DOMAIN aliases THEN evalExpr(aliases[e.n], aliases, env)
         ELSE e.n \in env
    ELSE IF e.op = "not" THEN ~evalExpr(e.kids[1], aliases, env)
    ELSE IF e.op = "and"
    THEN evalExpr(e.kids[1], aliases, env) /\ evalExpr(e.kids[2], aliases, env)
    ELSE IF e.op = "or"
    THEN evalExpr(e.kids[1], aliases, env) \/ evalExpr(e.kids[2], aliases, env)
    ELSE evalExpr(e.kids[1], aliases, env) # evalExpr(e.kids[2], aliases, env)

\* the value of the OR of the product terms ts
evalTerms(ts, env) ==
    \E k \in DOMAIN ts : \A i \in DOMAIN ts[k] : (ts[k][i].Name \in env) # ts[k][i].Neg

\* the pairs of a term of as and a term of bs that have no name in opposite
\* polarities
agreeingPairs(as, bs) ==
    {p \in (DOMAIN as) \X (DOMAIN bs) : ~conflicts(as[p[1]], Range(bs[p[2]]))}

\* ts is the cross product of as and bs, the conflicting pairs dropped
IsCrossProduct(ts, as, bs) ==
    /\ Len(ts) = Cardinality(agreeingPairs(as, bs))
    /\ {Range(ts[k]) : k \in DOMAIN ts}
          = {Range(as[p[1]]) \cup Range(bs[p[2]]) : p \in agreeingPairs(as, bs)}

\* C22: for every expression over constants, identifiers, NOT, AND, OR and
\* XOR whose aliases are not cyclic, exprToTerms returns product terms whose
\* OR has the truth table of the expression; TRUE gives one empty term,
\* FALSE no term, an AND the cross product of the terms of its sides
\* without the pairs of opposite polarity; no term holds a name twice.
C22_DnfSynthesis ==
    (xphase = "done" /\ ~CyclicFrom(xExpr, xAliases)) =>
        /\ xOut.err = <<>>
        /\ \A env \in SUBSET ((1..4) \ DOMAIN xAliases) :
              evalTerms(xOut.terms, env) <=> evalExpr(xExpr, xAliases, env)
        /\ xExpr = ExprConst(TRUE) => xOut.terms = <<<<>>>>
        /\ xExpr = ExprConst(FALSE) => xOut.terms = <<>>
        /\ xExpr.op = "and" =>
              IsCrossProduct(xOut.terms, exprToTerms(xExpr.kids[1], xAliases).terms,
                             exprToTerms(xExpr.kids[2], xAliases).terms)
        /\ \A k \in DOMAIN xOut.terms : \A i, j \in DOMAIN xOut.terms[k] :
              i # j => xOut.terms[k][i].Name # xOut.terms[k][j].Name

\* (a # b) & !a has given the one term !a & b: the pair a, !a is dropped
C22_Witness ==
    /\ xphase = "done"
    /\ xAliases = <<>>
    /\ xExpr = ExprAnd(ExprOr(ExprIdent(1), ExprIdent(2)), ExprNot(ExprIdent(1)))
    /\ xOut.terms = <<<<Lit(1, TRUE), Lit(2, FALSE)>>>>

\* C23: exprToTerms returns, and returns the cyclic-alias error exactly when
\* an alias reachable from the expression refers to itself directly or
\* through other aliases; an alias that is not cyclic may be used several
\* times, also inside another alias; the visiting set is empty when the
\* expansion has returned.
C23_AliasExpansion ==
    xphase = "done" =>
        /\ xOut.err # <<>> <=> CyclicFrom(xExpr, xAliases)
        /\ xOut.err # <<>> => xOut.err[1] = "cyclic alias"
        /\ xVisiting = {}

\* c # !c with c = d $ d and d = b: c is expanded twice, and d twice in
\* each c, without an error
C23_Witness ==
    /\ xphase = "done"
    /\ xExpr = ExprOr(ExprIdent(3), ExprNot(ExprIdent(3)))
    /\ 3 \in DOMAIN xAliases
    /\ 4 \in DOMAIN xAliases
    /\ xAliases[3] = ExprXor(ExprIdent(4), ExprIdent(4))
    /\ xAliases[4] = ExprIdent(2)
    /\ xOut.err = <<>>
    /\ xOut.terms # <<>>

(***************************************************************************)
(* Driver of Compile: a Content is parsed, then compiled twice             *)
(***************************************************************************)
\* most Pin statements and equations of a Content
MaxPins == 3
MaxEqs == 2

\* pin numbers in the Content: the inputs 1 and 2, the outputs 22 and 23
PinChoices == {1, 2, 22, 23}
\* the names a b y z as numbers 1 2 3 4; pins are named a, y or z
PinNames == {1, 3, 4}
\* the left-hand sides: b, y, z
LhsNames == {2, 3, 4}
\* the right-hand sides: a, b
RhsNames == {1, 2}
\* the OLMCs of the output pins in use
OlmcChoices == {PinToOLMC(p).olmc : p \in {q \in PinChoices : PinToOLMC(q).ok}}

InitCompile == Idle

\* parsePin: Pin n = name
ParsePin ==
    /\ cphase = "parse"
    /\ cEqs = <<>>
    /\ Cardinality(DOMAIN cPins) < MaxPins
    /\ \E pin \in PinChoices \ DOMAIN cPins, name \in PinNames :
          cPins' = put(cPins, pin, [Name |-> name, ActiveLow |-> FALSE])
    /\ UNCHANGED <<cEqs, run1, run2, cphase, notCompVars>>

\* parseEquation: name = ident, or APPEND name = ident after a first equation
ParseEquation ==
    /\ cphase = "parse"
    /\ Len(cEqs) < MaxEqs
    /\ \E lhs \in LhsNames, rhs \in RhsNames, app \in BOOLEAN :
          /\ app => Len(cEqs) > 0
          /\ cEqs' = Append(cEqs, [Line |-> Len(cEqs) + 1, LHS |-> lhs, Ext |-> "",
                                   Low |-> FALSE, RHS |-> ExprIdent(rhs), Append |-> app])
    /\ UNCHANGED <<cPins, run1, run2, cphase, notCompVars>>

\* Compile(c), the runtime choosing the map iteration orders
CompileFirst ==
    /\ cphase = "parse"
    /\ \E pinOrder \in Orders(DOMAIN cPins), olmcOrder \in Orders(OlmcChoices) :
          run1' = Compile(cPins, cEqs, pinOrder, olmcOrder)
    /\ cphase' = "first"
    /\ UNCHANGED <<cPins, cEqs, run2, notCompVars>>

\* Compile(c) again, on the same Content
CompileSecond ==
    /\ cphase = "first"
    /\ \E pinOrder \in Orders(DOMAIN cPins), olmcOrder \in Orders(OlmcChoices) :
          run2' = Compile(cPins, cEqs, pinOrder, olmcOrder)
    /\ cphase' = "second"
    /\ UNCHANGED <<cPins, cEqs, run1, notCompVars>>

NextCompile == ParsePin \/ ParseEquation \/ CompileFirst \/ CompileSecond

SpecCompile == InitCompile /\ [][NextCompile]_vars

(***************************************************************************)
(* Driver of Compile for the polarity of an output: the pins a, b, z and y *)
(* are declared, y and a active-high or active-low; the equations target y *)
(* or AR, with and without the '!' prefix, .D, .OE and APPEND, and their   *)
(* right-hand sides are expressions over a, b and the feedback of z.       *)
(***************************************************************************)
\* Pin 1 = [!]a; Pin 2 = b; Pin 22 = z; Pin 23 = [!]y
PinTables ==
    {put(put(put(put(<<>>, 1, [Name |-> 1, ActiveLow |-> aLow]),
                 2, [Name |-> 2, ActiveLow |-> FALSE]),
             22, [Name |-> 4, ActiveLow |-> FALSE]),
         23, [Name |-> 3, ActiveLow |-> yLow]) : aLow, yLow \in BOOLEAN}

\* a, !a, b, z & a, !z & a, (z & a) # (!z & a), !(a # b)
PolarityExprs ==
    {ExprIdent(1), ExprNot(ExprIdent(1)), ExprIdent(2),
     ExprAnd(ExprIdent(4), ExprIdent(1)),
     ExprAnd(ExprNot(ExprIdent(4)), ExprIdent(1)),
     ExprOr(ExprAnd(ExprIdent(4), ExprIdent(1)),
            ExprAnd(ExprNot(ExprIdent(4)), ExprIdent(1))),
     ExprNot(ExprOr(ExprIdent(1), ExprIdent(2)))}

\* parsePin, for every Pin statement of the Content
ParsePinTable ==
    /\ cphase = "parse"
    /\ cPins = <<>>
    /\ cEqs = <<>>
    /\ cPins' \in PinTables
    /\ UNCHANGED <<cEqs, run1, run2, cphase, notCompVars>>

\* parseEquation: [APPEND] [!]y[.D|.OE] = expr, or AR = expr
ParseEquationFull ==
    /\ cphase = "parse"
    /\ cPins # <<>>
    /\ Len(cEqs) < MaxEqs
    /\ \E lhs \in {3, NameAR}, low \in BOOLEAN, ext \in {"", "R", "E"},
          rhs \in PolarityExprs, app \in BOOLEAN :
          /\ app => Len(cEqs) > 0
          /\ lhs = NameAR => (~low /\ ext = "" /\ ~app)
          /\ cEqs' = Append(cEqs, [Line |-> Len(cEqs) + 1, LHS |-> lhs, Ext |-> ext,
                                   Low |-> low, RHS |-> rhs, Append |-> app])
    /\ UNCHANGED <<cPins, run1, run2, cphase, notCompVars>>

\* the pins of the Content by rising and by falling number
PinOrders ==
    {[i \in 1..4 |-> <<1, 2, 22, 23>>[i]], [i \in 1..4 |-> <<23, 22, 2, 1>>[i]]}

\* Compile(c), the runtime iterating c.Pins by rising or by falling pin
\* number and accum in either order
CompileContent ==
    /\ cphase = "parse"
    /\ cPins # <<>>
    /\ \E pinOrder \in PinOrders, olmcOrder \in Orders(OlmcChoices) :
          run1' = Compile(cPins, cEqs, pinOrder, olmcOrder)
    /\ cphase' = "first"
    /\ UNCHANGED <<cPins, cEqs, run2, notCompVars>>

NextPolarity == ParsePinTable \/ ParseEquationFull \/ CompileContent

SpecPolarity == InitCompile /\ [][NextPolarity]_vars

(***************************************************************************)
(* The function a blueprint realises                                       *)
(***************************************************************************)
\* the pins at the high level when the names of env are asserted
highPins(pins, env) ==
    {p \in DOMAIN pins : (pins[p].Name \in env) # pins[p].ActiveLow}

\* the OR of the rows of a placed term, high the set of pins at high level
rowsValue(rows, high) ==
    \E r \in DOMAIN rows : \A j \in DOMAIN rows[r] : (rows[r][j].Pin \in high) # rows[r][j].Neg

\* the output of the OLMC is asserted: the level its macrocell drives, the
\* OR of its rows inverted for an active-low output, read through the
\* declaration of the pin
outputAsserted(c, olmc, pins, env) ==
    LET level == rowsValue(c.Output[olmc].Pins, highPins(pins, env))
                    # (c.Output[olmc].Active = "ActiveLow")
    IN  level # pins[MinOLMC22V10 + olmc].ActiveLow

\* the names the expressions of the driver read: a, b, z
PolarityEnvs == SUBSET {1, 2, 4}

\* cEqs[k] is the first equation of y that is not an .OE equation
firstOfOutput(k) ==
    /\ cEqs[k].LHS = 3 /\ cEqs[k].Ext # "E"
    /\ \A j \in 1..(k - 1) : ~(cEqs[j].LHS = 3 /\ cEqs[j].Ext # "E")

\* the rows placed for y have the truth table of the expression e
rowsRealise(rows, e) ==
    \A env \in PolarityEnvs :
        rowsValue(rows, highPins(cPins, env)) <=> evalExpr(e, <<>>, env)

\* the polarity an equation gives its output when nothing is hoisted
unhoistedActive(eq) ==
    IF eq.Low \/ cPins[23].ActiveLow THEN "ActiveLow" ELSE "ActiveHigh"

toggled(active) == IF active = "ActiveLow" THEN "ActiveHigh" ELSE "ActiveLow"

\* the claim's condition of the hoist
hoistCase(eq) == eq.RHS.op = "not" /\ ~eq.Append /\ eq.Ext # "E" /\ eq.Ext # "R"

\* the expression the claim has compiled for an equation
compiledExprOf(eq) == IF hoistCase(eq) THEN eq.RHS.kids[1] ELSE eq.RHS

\* C25: when Compile succeeds, the first equation of output y gives y the
\* toggle of its unhoisted polarity if its top-level expression is a NOT and
\* it is neither APPEND nor .OE nor registered, and the unhoisted polarity
\* otherwise, whatever the '!' prefix and the declaration of the pin are;
\* the rows of y are the hoisted equation's inner expression, a registered
\* or APPEND equation's whole expression; the OE row is the .OE equation's
\* whole expression.
C25_PolarityHoist ==
    (cphase = "first" /\ run1.err = <<>>) =>
        LET olmc == PinToOLMC(23).olmc
        IN  /\ \A k \in DOMAIN cEqs : firstOfOutput(k) =>
                  /\ run1.Output[olmc].Active =
                         IF hoistCase(cEqs[k]) THEN toggled(unhoistedActive(cEqs[k]))
                         ELSE unhoistedActive(cEqs[k])
                  /\ rowsRealise(run1.Output[olmc].Pins,
                         IF \E j \in DOMAIN cEqs : j > k /\ cEqs[j].LHS = 3 /\ cEqs[j].Ext # "E"
                         THEN ExprOr(compiledExprOf(cEqs[k]), cEqs[Len(cEqs)].RHS)
                         ELSE compiledExprOf(cEqs[k]))
            /\ \A k \in DOMAIN cEqs : (cEqs[k].LHS = 3 /\ cEqs[k].Ext = "E") =>
                  rowsRealise(run1.OETerm[olmc].Pins, cEqs[k].RHS)

\* C29: when every equation targets y without prefix and extension, the
\* first without APPEND and the others with it, y is asserted exactly when
\* one of the right-hand sides is.
C29_AppendMeaning ==
    (/\ cphase = "first" /\ run1.err = <<>> /\ cEqs # <<>>
     /\ \A k \in DOMAIN cEqs :
           /\ cEqs[k].LHS = 3 /\ cEqs[k].Ext = "" /\ ~cEqs[k].Low
           /\ cEqs[k].Append <=> k > 1) =>
        \A env \in PolarityEnvs :
            outputAsserted(run1, PinToOLMC(23).olmc, cPins, env)
                <=> \E k \in DOMAIN cEqs : evalExpr(cEqs[k].RHS, <<>>, env)

\* the OLMCs whose pin a row of the term (a sequence of no or one term) reads
readBy(t) ==
    LET read(rows) == UNION {{rows[r][j].Pin : j \in DOMAIN rows[r]} : r \in DOMAIN rows}
    IN  {PinToOLMC(p).olmc :
            p \in {q \in UNION {read(t[i].Pins) : i \in DOMAIN t} : PinToOLMC(q).ok}}

\* the OLMCs whose pin a placed term of the blueprint reads
placedReads(c) ==
    UNION {readBy(<<c.Output[o]>>) : o \in DOMAIN c.Output}
        \cup UNION {readBy(<<c.OETerm[o]>>) : o \in DOMAIN c.OETerm}
        \cup readBy(c.AR) \cup readBy(c.SP)

\* C21: when Compile succeeds, an OLMC is marked 'feedback used' exactly
\* when a literal of a placed term (the minimized output terms, the OE terms,
\* AR, SP) reads its pin.
C21_FeedbackTracking ==
    (cphase = "first" /\ run1.err = <<>>) => run1.Feedback = placedReads(run1)

(***************************************************************************)
(* C9.  Determinism: compiling the same Content twice produces             *)
(* byte-identical JEDEC (and the same error when it fails), whatever order *)
(* the runtime iterates the pin map and the per-OLMC accumulator maps in;  *)
(* this includes a Content in which two pin numbers carry the same name or *)
(* two outputs both fail.                                                  *)
(***************************************************************************)
C9_Deterministic ==
    cphase = "second" =>
        /\ run1.err = run2.err
        /\ run1.err = <<>> => outputFuses(run1) = outputFuses(run2)


(***************************************************************************)
(* part_000, gal.go: chips and the GAL fuse map                            *)
(* A []bool is a sequence of BOOLEAN; g.Fuses, one slice of numRows rows   *)
(* of numCols fuses, is kept row by row: Fuses[row][col + 1] is the fuse   *)
(* row*numCols + col.                                                      *)
(***************************************************************************)
chip16v8 ==
    [name |-> "GAL16V8", numPins |-> 20, numRows |-> 64, numCols |-> 32,
     totalSize |-> 2194, minOLMC |-> 12, maxOLMC |-> 19,
     olmcMap |-> <<56, 48, 40, 32, 24, 16, 8, 0>>]

chip22v10 ==
    [name |-> "GAL22V10", numPins |-> NumPins22V10, numRows |-> 132,
     numCols |-> NumCols22V10, totalSize |-> 5892,
     minOLMC |-> MinOLMC22V10, maxOLMC |-> MaxOLMC22V10,
     olmcMap |-> olmcMap22v10]

olmcSize22v10 == <<9, 11, 13, 15, 17, 17, 15, 13, 11, 9>>

\* Chip.data
chipData(chip) == IF chip = "GAL16V8" THEN chip16v8 ELSE chip22v10

NumOLMCs(chip) == chipData(chip).maxOLMC - chipData(chip).minOLMC + 1

NumRowsForOLMC(chip, olmc) == IF chip = "GAL22V10" THEN olmcSize22v10[olmc + 1] ELSE 8

BoundsForOLMC(chip, olmc) ==
    [StartRow  |-> chipData(chip).olmcMap[olmc + 1],
     MaxRows   |-> NumRowsForOLMC(chip, olmc),
     RowOffset |-> 0]

\* a slice of n bools, all b
boolSlice(n, b) == [i \in 1..n |-> b]

NewGAL(chip) ==
    [Chip  |-> chip,
     Fuses |-> [row \in 0..(chipData(chip).numRows - 1) |->
                   boolSlice(chipData(chip).numCols, TRUE)],
     Xor   |-> boolSlice(NumOLMCs(chip), FALSE),
     Sig   |-> boolSlice(64, FALSE),
     AC1   |-> boolSlice(NumOLMCs(chip), FALSE),
     PT    |-> boolSlice(64, FALSE),
     Syn   |-> FALSE,
     AC0   |-> FALSE]

SetSimpleMode(g) == [g EXCEPT !.Syn = TRUE, !.AC0 = FALSE]

\* a Simple-mode table in which pins 15 and 16 have input columns
pinToCol16SimpleAllInputs(pin) ==
    IF pin = 1 THEN 2
    ELSE IF pin = 2 THEN 0
    ELSE IF pin \in 3..9 THEN 4 * (pin - 2)
    ELSE IF pin \in 11..19 THEN 30 - 4 * (pin - 11)
    ELSE -1

\* pinToCol16Simple; -1: the pin has no column
pinToCol16Simple(pin) ==
    IF pin = 1 THEN 2
    ELSE IF pin = 2 THEN 0
    ELSE IF pin \in 3..9 THEN 4 * (pin - 2)
    ELSE IF pin \in 11..14 THEN 30 - 4 * (pin - 11)
    ELSE IF pin \in 17..19 THEN 14 - 4 * (pin - 17)
    ELSE -1

\* the column table of the 16V8 outside Simple mode: the inputs 2..9 keep
\* their columns, 15 and 16 have input columns, 12 and 19 have none
pinToCol16Complex(pin) ==
    IF pin = 1 THEN 2
    ELSE IF pin \in 2..9 THEN 4 * (pin - 2)
    ELSE IF pin = 11 THEN 30
    ELSE IF pin \in 13..18 THEN 26 - 4 * (pin - 13)
    ELSE -1

\* GAL.pinToColumn: the table of the chip and, on the 16V8, of the mode
\* (AC0 is set in Complex and in Registered mode)
pinToColumn(g, pin) ==
    IF pin < 1 \/ pin > chipData(g.Chip).numPins THEN -1
    ELSE IF g.Chip = "GAL16V8"
    THEN IF g.AC0 THEN pinToCol16Complex(pin) ELSE pinToCol16Simple(pin)
    ELSE pinToCol22v10(pin)

\* clearRows that also clears the last row written
clearRowsFromLastRow(g, b) ==
    [g EXCEPT !.Fuses =
        [row \in DOMAIN g.Fuses |->
            IF b.StartRow + b.RowOffset - 1 <= row /\ row < b.StartRow + b.MaxRows
            THEN boolSlice(chipData(g.Chip).numCols, FALSE)
            ELSE g.Fuses[row]]]

\* clearRows that clears the block from its first row
clearRowsWholeBlock(g, b) ==
    [g EXCEPT !.Fuses =
        [row \in DOMAIN g.Fuses |->
            IF b.StartRow <= row /\ row < b.StartRow + b.MaxRows
            THEN boolSlice(chipData(g.Chip).numCols, FALSE)
            ELSE g.Fuses[row]]]

\* GAL.clearRows: the rows from StartRow+RowOffset up to StartRow+MaxRows
clearRows(g, b) ==
    [g EXCEPT !.Fuses =
        [row \in DOMAIN g.Fuses |->
            IF b.StartRow + b.RowOffset <= row /\ row < b.StartRow + b.MaxRows
            THEN boolSlice(chipData(g.Chip).numCols, FALSE)
            ELSE g.Fuses[row]]]

RECURSIVE setAndRow(_, _, _, _)
\* AddTerm, "for _, input := range row": setAnd for every input of a row
setAndRow(g, row, inputs, k) ==
    IF k > Len(inputs) THEN [g |-> g, err |-> <<>>]
    ELSE LET col == pinToColumn(g, inputs[k].Pin)
             off == IF inputs[k].Neg THEN 1 ELSE 0
         IN  IF col < 0 THEN [g |-> g, err |-> <<"invalid pin", inputs[k].Pin>>]
             ELSE IF row \notin DOMAIN g.Fuses
             THEN [g |-> g, err |-> <<"fuse index out of range", row>>]
             ELSE setAndRow([g EXCEPT !.Fuses[row][col + off + 1] = FALSE],
                            row, inputs, k + 1)

RECURSIVE addTermRows(_, _, _, _, _)
\* AddTerm, "for _, row := range term.Pins", then clearRows
addTermRows(g, term, b, singleRow, k) ==
    IF k > Len(term.Pins) THEN [g |-> clearRows(g, b), err |-> <<>>]
    ELSE IF b.RowOffset = b.MaxRows
    THEN [g |-> g, err |-> IF singleRow THEN <<"more than one product term", term.Line>>
                                       ELSE <<"too many product terms", term.Line>>]
    ELSE LET r == setAndRow(g, b.StartRow + b.RowOffset, term.Pins[k], 1)
         IN  IF r.err # <<>> THEN r
             ELSE addTermRows(r.g, term, [b EXCEPT !.RowOffset = @ + 1], singleRow, k + 1)

\* GAL.AddTerm
AddTerm(g, term, bounds) ==
    addTermRows(g, term, bounds, bounds.MaxRows = bounds.RowOffset + 1, 1)

TrueTerm(line) == [Line |-> line, Pins |-> <<<<>>>>]
FalseTerm(line) == [Line |-> line, Pins |-> <<>>]

\* setSig: the bits of up to 8 signature bytes, the top bit first
setSig(g, sig) ==
    [g EXCEPT !.Sig =
        [n \in 1..64 |->
            LET i == (n - 1) \div 8
                j == (n - 1) % 8
            IN  IF i < Len(sig) THEN BitAt(sig[i + 1], 7 - j) = 1 ELSE g.Sig[n]]]

\* setPTs
setPTs(g) == [g EXCEPT !.PT = boolSlice(64, TRUE)]


\* setXors: active is the set of OLMCs i with an Output and ActiveHigh
setXors(g, active) ==
    [g EXCEPT !.Xor = [n \in DOMAIN g.Xor |->
        IF Len(g.Xor) - n \in active THEN TRUE ELSE g.Xor[n]]]

\* setTristate: tri is the set of OLMCs i for which isTri holds
setTristate(g, tri) ==
    [g EXCEPT !.AC1 = [n \in DOMAIN g.AC1 |->
        IF Len(g.AC1) - n \in tri THEN TRUE ELSE g.AC1[n]]]

(***************************************************************************)
(* part_001: the Blueprint and BuildGAL.  A *Term is <<>> for nil and      *)
(* <<t>> for a term t; bp.OLMC[i + 1] is the OLMC with index i.            *)
(***************************************************************************)
NewBlueprint(chip) ==
    [Chip     |-> chip,
     Sig      |-> <<>>,
     OLMC     |-> [n \in 1..NumOLMCs(chip) |->
                     [Active |-> "ActiveLow", Output |-> <<>>, Feedback |-> FALSE,
                      Registered |-> FALSE, OETerm |-> <<>>]],
     AR       |-> <<>>,
     SP       |-> <<>>,
     ModeHint |-> "ModeAuto"]

\* the pins an output term reads
termPins(t) == UNION {{t.Pins[r][c].Pin : c \in DOMAIN t.Pins[r]} : r \in DOMAIN t.Pins}

\* detectMode that looks at the OE terms before the registered outputs
detectModeOEFirst(bp) ==
    IF bp.ModeHint # "ModeAuto" THEN bp.ModeHint
    ELSE IF \E n \in DOMAIN bp.OLMC : bp.OLMC[n].OETerm # <<>> THEN "ModeComplex"
    ELSE IF \E n \in DOMAIN bp.OLMC : bp.OLMC[n].Registered THEN "ModeRegistered"
    ELSE "ModeSimple"

detectMode(bp) ==
    IF bp.ModeHint # "ModeAuto" THEN bp.ModeHint
    ELSE IF \E n \in DOMAIN bp.OLMC : bp.OLMC[n].Registered THEN "ModeRegistered"
    ELSE IF \E n \in DOMAIN bp.OLMC : bp.OLMC[n].OETerm # <<>> THEN "ModeComplex"
    ELSE IF \E n \in DOMAIN bp.OLMC :
               /\ bp.OLMC[n].Output # <<>>
               /\ termPins(bp.OLMC[n].Output[1]) \cap {15, 16} # {}
    THEN "ModeComplex"
    ELSE IF \E n \in DOMAIN bp.OLMC : bp.OLMC[n].Feedback /\ bp.OLMC[n].Output # <<>>
    THEN "ModeComplex"
    ELSE "ModeSimple"

\* GAL.SetComplexMode: SYN=1, AC0=1
SetComplexMode(g) == [g EXCEPT !.Syn = TRUE, !.AC0 = TRUE]

\* GAL.SetRegisteredMode: SYN=0, AC0=1
SetRegisteredMode(g) == [g EXCEPT !.Syn = FALSE, !.AC0 = TRUE]

\* BuildGAL, "switch mode"
setMode(g, mode) ==
    IF mode = "ModeSimple" THEN SetSimpleMode(g)
    ELSE IF mode = "ModeComplex" THEN SetComplexMode(g)
    ELSE IF mode = "ModeRegistered" THEN SetRegisteredMode(g)
    ELSE g

\* isTri that takes an unused OLMC for an input in every mode
isTriUnusedInput(g, bp, i) ==
    LET olmc == bp.OLMC[i + 1]
    IN  IF olmc.Output = <<>> THEN TRUE
        ELSE IF olmc.Registered THEN FALSE
        ELSE IF bp.Chip = "GAL22V10" THEN TRUE ELSE g.AC0

\* setTristate, isTri of the OLMC with index i
isTri(g, bp, i) ==
    LET olmc == bp.OLMC[i + 1]
        comIsTri == IF bp.Chip = "GAL22V10" THEN TRUE
                    ELSE IF bp.Chip = "GAL16V8" THEN g.AC0 ELSE FALSE
        isSimple == bp.Chip = "GAL16V8" /\ g.Syn /\ ~g.AC0
    IN  IF olmc.Output = <<>>
        THEN IF isSimple THEN TRUE ELSE olmc.Feedback
        ELSE IF olmc.Registered THEN FALSE
        ELSE comIsTri

\* setXors that skips an output without product terms
xorSetPlaced(bp) ==
    {i \in 0..(Len(bp.OLMC) - 1) :
        /\ bp.OLMC[i + 1].Output # <<>>
        /\ bp.OLMC[i + 1].Output[1].Pins # <<>>
        /\ bp.OLMC[i + 1].Active = "ActiveHigh"}

\* setXors, the OLMCs whose XOR fuse it sets
xorSet(bp) ==
    {i \in 0..(Len(bp.OLMC) - 1) :
        bp.OLMC[i + 1].Output # <<>> /\ bp.OLMC[i + 1].Active = "ActiveHigh"}

\* GAL.AddTermOpt
AddTermOpt(g, term, bounds) ==
    IF term = <<>> THEN AddTerm(g, FalseTerm(0), bounds) ELSE AddTerm(g, term[1], bounds)

\* setARSP with SP one row too high
setARSPRow130(g, bp) ==
    IF g.Chip # "GAL22V10" THEN [g |-> g, err |-> <<>>]
    ELSE LET a == AddTermOpt(g, bp.AR, [StartRow |-> 0, MaxRows |-> 1, RowOffset |-> 0])
         IN  IF a.err # <<>> THEN a
             ELSE AddTermOpt(a.g, bp.SP, [StartRow |-> 130, MaxRows |-> 1, RowOffset |-> 0])

setARSP(g, bp) ==
    IF g.Chip # "GAL22V10" THEN [g |-> g, err |-> <<>>]
    ELSE LET a == AddTermOpt(g, bp.AR, [StartRow |-> 0, MaxRows |-> 1, RowOffset |-> 0])
         IN  IF a.err # <<>> THEN a
             ELSE AddTermOpt(a.g, bp.SP, [StartRow |-> 131, MaxRows |-> 1, RowOffset |-> 0])

RECURSIVE setCoreEqns(_, _, _)
\* setCoreEqns, "for i, olmc := range bp.OLMC" from the OLMC with index i on
setCoreEqns(g, bp, i) ==
    IF i >= Len(bp.OLMC) THEN [g |-> g, err |-> <<>>]
    ELSE LET olmc == bp.OLMC[i + 1]
             isComplex == bp.Chip = "GAL16V8" /\ g.Syn /\ g.AC0
             hasOERow == bp.Chip = "GAL22V10" \/ isComplex
             bounds == BoundsForOLMC(g.Chip, i)
             oe == IF hasOERow /\ olmc.Output # <<>> /\ olmc.OETerm # <<>>
                   THEN AddTerm(g, olmc.OETerm[1],
                                [StartRow |-> bounds.StartRow, MaxRows |-> 1, RowOffset |-> 0])
                   ELSE [g |-> g, err |-> <<>>]
             b == IF hasOERow /\ olmc.Output # <<>>
                  THEN [bounds EXCEPT !.RowOffset = 1] ELSE bounds
         IN  IF oe.err # <<>> THEN oe
             ELSE LET out == AddTermOpt(oe.g, olmc.Output, b)
                  IN  IF out.err # <<>> THEN out ELSE setCoreEqns(out.g, bp, i + 1)

\* Compile, flipTermPins: the term with the negation of every literal on a
\* pin of flipPins inverted
flipTermPins(t, flipPins) ==
    IF t = <<>> THEN t
    ELSE <<[t[1] EXCEPT !.Pins =
              [ri \in DOMAIN t[1].Pins |->
                  [ci \in DOMAIN t[1].Pins[ri] |->
                      IF t[1].Pins[ri][ci].Pin \in flipPins
                      THEN [t[1].Pins[ri][ci] EXCEPT !.Neg = ~t[1].Pins[ri][ci].Neg]
                      ELSE t[1].Pins[ri][ci]]]]>>

\* the feedback flip that leaves the AR and SP terms alone
flipFeedbackOLMCOnly(bp) ==
    LET flipPins == {chipData(bp.Chip).minOLMC + (n - 1) : n \in
                        {k \in DOMAIN bp.OLMC :
                            bp.OLMC[k].Registered /\ bp.OLMC[k].Active = "ActiveHigh"}}
    IN  IF bp.Chip # "GAL22V10" THEN bp
        ELSE [bp EXCEPT !.OLMC = [n \in DOMAIN bp.OLMC |->
                                     [bp.OLMC[n] EXCEPT
                                         !.Output = flipTermPins(bp.OLMC[n].Output, flipPins),
                                         !.OETerm = flipTermPins(bp.OLMC[n].OETerm, flipPins)]]]

\* Compile, "needs_flip": on the GAL22V10 every reference to the pin of a
\* registered active-high OLMC has its negation flipped
flipFeedback(bp) ==
    LET flipPins == {chipData(bp.Chip).minOLMC + (n - 1) : n \in
                        {k \in DOMAIN bp.OLMC :
                            bp.OLMC[k].Registered /\ bp.OLMC[k].Active = "ActiveHigh"}}
    IN  IF bp.Chip # "GAL22V10" THEN bp
        ELSE [bp EXCEPT !.OLMC = [n \in DOMAIN bp.OLMC |->
                                     [bp.OLMC[n] EXCEPT
                                         !.Output = flipTermPins(bp.OLMC[n].Output, flipPins),
                                         !.OETerm = flipTermPins(bp.OLMC[n].OETerm, flipPins)]],
                        !.AR = flipTermPins(bp.AR, flipPins),
                        !.SP = flipTermPins(bp.SP, flipPins)]

\* BuildGAL: the GAL, or the error and no GAL
BuildGAL(bp) ==
    LET g0 == NewGAL(bp.Chip)
        g1 == IF bp.Chip = "GAL16V8" THEN setMode(g0, detectMode(bp)) ELSE g0
        g2 == setSig(g1, bp.Sig)
        g3 == setTristate(g2, {i \in 0..(Len(bp.OLMC) - 1) : isTri(g2, bp, i)})
        g4 == setXors(g3, xorSet(bp))
        g5 == setARSP(g4, bp)
    IN  IF g5.err # <<>> THEN [g |-> <<>>, err |-> g5.err]
        ELSE LET g6 == setCoreEqns(g5.g, bp, 0)
             IN  IF g6.err # <<>> THEN [g |-> <<>>, err |-> g6.err]
                 ELSE [g |-> setPTs(g6.g), err |-> <<>>]

(***************************************************************************)
(* jed.go: the JEDEC emitter.  The text written to buf is kept as its      *)
(* lines: a *L line is [off, bits], off the five decimal digits of "%05d"  *)
(* and bits the characters '0'/'1' as 0/1; the *C line is its four         *)
(* characters.                                                             *)
(***************************************************************************)
HexDigits == <<"0", "1", "2", "3", "4", "5", "6", "7", "8", "9", "a", "b", "c", "d", "e", "f">>

\* fmt "%04x" of a uint16
hex4(n) ==
    [i \in 1..4 |-> HexDigits[((n \div Pow2(4 * (4 - i))) % 16) + 1]]

\* fmt "%05d" of an index below 100000
dec5(n) ==
    [i \in 1..5 |-> HexDigits[((n \div (10 ^ (5 - i))) % 10) + 1]]

digitValue(ch) == (CHOOSE d \in DOMAIN HexDigits : HexDigits[d] = ch) - 1

RECURSIVE parseDigits(_, _, _)
\* strconv.Atoi (base 10) and strconv.ParseUint (base 16) on a digit string
parseDigits(str, base, k) ==
    IF k = 0 THEN 0
    ELSE parseDigits(str, base, k - 1) * base + digitValue(str[k])

boolToInt(b) == IF b THEN 1 ELSE 0

\* checkSummer.add
csAdd(c, bit) ==
    LET byte == IF bit THEN BitOr(c.byte, Pow2(c.bitNum)) % 256 ELSE c.byte
        bitNum == (c.bitNum + 1) % 256
    IN  IF bitNum = 8
        THEN [bitNum |-> 0, byte |-> 0, sum |-> (c.sum + byte) % 65536]
        ELSE [bitNum |-> bitNum, byte |-> byte, sum |-> c.sum]

\* checkSummer.get
csGet(c) == (c.sum + c.byte) % 65536

RECURSIVE csAddAll(_, _, _, _)
\* cs.add for the bits lo .. hi-1 of a slice, in order: the first half, and
\* on its value the second
csAddAll(c, bits, lo, hi) ==
    IF lo >= hi THEN c
    ELSE IF hi = lo + 1 THEN csAdd(c, bits[lo])
    ELSE LET mid == (lo + hi) \div 2
             c1 == csAddAll(c, bits, lo, mid)
         IN  IF c1 = c1 THEN csAddAll(c1, bits, mid, hi) ELSE c1

newFuseBuilder ==
    [buf |-> <<>>, cs |-> [bitNum |-> 0, byte |-> 0, sum |-> 0], idx |-> 0,
     openLine |-> FALSE]

\* fuseBuilder.startLine
startLine(f) ==
    IF f.openLine THEN f
    ELSE [f EXCEPT !.buf = Append(@, [off |-> dec5(f.idx), bits |-> <<>>]),
                   !.openLine = TRUE]

\* fuseBuilder.addBit for every bit of a slice: the bits go to the open line
addBits(f, bits) ==
    IF Len(bits) = 0 THEN f
    ELSE LET g == startLine(f)
         IN  [g EXCEPT !.buf[Len(g.buf)].bits = @ \o [i \in DOMAIN bits |-> boolToInt(bits[i])],
                       !.cs = csAddAll(g.cs, bits, 1, Len(bits) + 1),
                       !.idx = @ + Len(bits)]

\* fuseBuilder.endLine
endLine(f) == [f EXCEPT !.openLine = FALSE]

\* fuseBuilder.add
add(f, bits) == endLine(addBits(startLine(f), bits))

\* a skip that leaves the checksummer alone
skipUnsummed(f, bits) == [f EXCEPT !.idx = @ + Len(bits)]

\* fuseBuilder.skip
skip(f, bits) ==
    [f EXCEPT !.cs = csAddAll(f.cs, boolSlice(Len(bits), FALSE), 1, Len(bits) + 1),
              !.idx = @ + Len(bits)]

anyTrue(bits) == \E i \in DOMAIN bits : bits[i]

RECURSIVE emitRows(_, _, _, _)
\* MakeJEDEC, "for row := 0; row < len(g.Fuses); row += rowLen", the rows
\* lo .. hi-1 in order: the first half, and on its value the second
emitRows(f, g, lo, hi) ==
    IF lo >= hi THEN f
    ELSE IF hi = lo + 1
    THEN IF anyTrue(g.Fuses[lo]) THEN add(f, g.Fuses[lo]) ELSE skip(f, g.Fuses[lo])
    ELSE LET mid == (lo + hi) \div 2
             f1 == emitRows(f, g, lo, mid)
         IN  IF f1 = f1 THEN emitRows(f1, g, mid, hi) ELSE f1

\* an interleaving that puts the AC1 bit of a pair first
interleaveAC1First(xor, ac1) ==
    LET n == IF Len(xor) < Len(ac1) THEN Len(xor) ELSE Len(ac1)
    IN  [k \in 1..(2 * n) |-> IF k % 2 = 1 THEN ac1[(k + 1) \div 2] ELSE xor[k \div 2]]

\* MakeJEDEC, "interleave XOR and AC1"
interleave(xor, ac1) ==
    LET n == IF Len(xor) < Len(ac1) THEN Len(xor) ELSE Len(ac1)
    IN  [k \in 1..(2 * n) |-> IF k % 2 = 1 THEN xor[(k + 1) \div 2] ELSE ac1[k \div 2]]

\* the byte of a character of HexDigits: '0' is 48, 'a' is 97
digitByte(ch) ==
    LET d == digitValue(ch) IN IF d < 10 THEN 48 + d ELSE 87 + d

RECURSIVE decDigits(_)
\* fmt "%d" of a natural number
decDigits(n) ==
    IF n < 10 THEN <<HexDigits[n + 1]>>
    ELSE Append(decDigits(n \div 10), HexDigits[(n % 10) + 1])

\* the bytes of a string of digits
digitBytes(str) == [i \in DOMAIN str |-> digitByte(str[i])]

\* MakeJEDEC, a header line: the line, and a newline if it does not end in one
headerLine(line) ==
    IF Len(line) > 0 /\ line[Len(line)] = 10 THEN line ELSE Append(line, 10)

\* the bytes of a line "*L%05d " with its bits and its newline
fuseLine(l) ==
    <<42, 76>> \o digitBytes(l.off) \o <<32>> \o [i \in DOMAIN l.bits |-> 48 + l.bits[i]] \o <<10>>

RECURSIVE flatten(_, _, _)
\* the bytes of the pieces lo .. hi-1, one after the other
flatten(pieces, lo, hi) ==
    IF lo >= hi THEN <<>>
    ELSE IF hi = lo + 1 THEN pieces[lo]
    ELSE LET mid == (lo + hi) \div 2
             left == flatten(pieces, lo, mid)
         IN  IF left = left THEN left \o flatten(pieces, mid, hi) ELSE left

\* the bytes MakeJEDEC has written to buf when it calls fileChecksum: STX,
\* the header, *F0, *G, *QF, the fuse lines, *C, * and ETX
fileBytes(j) ==
    <<2, 10>>
    \o flatten([i \in DOMAIN j.Header |-> headerLine(j.Header[i])], 1, Len(j.Header) + 1)
    \o <<42, 70, 48, 10>>
    \o <<42, 71, 48 + j.G, 10>>
    \o <<42, 81, 70>> \o digitBytes(decDigits(j.QF)) \o <<10>>
    \o flatten([i \in DOMAIN j.L |-> fuseLine(j.L[i])], 1, Len(j.L) + 1)
    \o <<42, 67>> \o digitBytes(j.C) \o <<10>>
    \o <<42, 10>>
    \o <<3>>

RECURSIVE sumFrom(_, _, _, _)
\* fileChecksum, "sum += uint16(b)" for the bytes lo .. hi-1 in order
sumFrom(sum, data, lo, hi) ==
    IF lo >= hi THEN sum
    ELSE IF hi = lo + 1 THEN (sum + data[lo]) % 65536
    ELSE LET mid == (lo + hi) \div 2
             s1 == sumFrom(sum, data, lo, mid)
         IN  IF s1 = s1 THEN sumFrom(s1, data, mid, hi) ELSE s1

\* a file checksum that leaves out the last byte
fileChecksumShort(data) == sumFrom(0, data, 1, Len(data))

fileChecksum(data) == sumFrom(0, data, 1, Len(data) + 1)

\* MakeJEDEC: the header, the *G and *QF lines, the *L lines, the *C line and
\* the four digits after ETX
MakeJEDEC(cfg, g) ==
    LET f1 == emitRows(newFuseBuilder, g, 0, chipData(g.Chip).numRows)
        f2 == IF g.Chip # "GAL22V10" THEN add(f1, g.Xor)
              ELSE endLine(addBits(f1, interleave(g.Xor, g.AC1)))
        f3 == add(f2, g.Sig)
        f4 == IF g.Chip = "GAL16V8"
              THEN add(add(add(add(f3, g.AC1), g.PT), <<g.Syn>>), <<g.AC0>>)
              ELSE f3
        j  == [Header |-> cfg.Header,
               G  |-> boolToInt(cfg.SecurityBit),
               QF |-> chipData(g.Chip).totalSize,
               L  |-> endLine(f4).buf,
               C  |-> hex4(csGet(f4.cs))]
    IN  [Header |-> j.Header, G |-> j.G, QF |-> j.QF, L |-> j.L, C |-> j.C,
         trailer |-> hex4(fileChecksum(fileBytes(j)))]


(***************************************************************************)
(* jedparse.go: the reader of the written file                             *)
(***************************************************************************)
\* ParseJEDEC, one *L line: the map fuses is kept as the set of the indices
\* it holds and the set of those it holds as true; a later line overwrites
parseLine(line, m) ==
    LET off == parseDigits(line.off, 10, Len(line.off))
        here == {off + i - 1 : i \in DOMAIN line.bits}
        ones == {off + i - 1 : i \in {j \in DOMAIN line.bits : line.bits[j] = 1}}
    IN  [keys |-> m.keys \cup here, ones |-> (m.ones \ here) \cup ones]

RECURSIVE parseLines(_, _, _, _)
\* ParseJEDEC, the lines lo .. hi-1 in order: the first half, and on its value
\* the second
parseLines(lines, lo, hi, m) ==
    IF lo >= hi THEN m
    ELSE IF hi = lo + 1 THEN parseLine(lines[lo], m)
    ELSE LET mid == (lo + hi) \div 2
             m1 == parseLines(lines, lo, mid, m)
         IN  IF m1 = m1 THEN parseLines(lines, mid, hi, m1) ELSE m1

\* ParseJEDEC: Fuses is the set of the indices below QF whose fuse is true
ParseJEDEC(data) ==
    LET m == parseLines(data.L, 1, Len(data.L) + 1, [keys |-> {}, ones |-> {}])
    IN  [QF    |-> data.QF,
         Fuses |-> {i \in m.ones : i < data.QF},
         Csum  |-> parseDigits(data.C, 16, Len(data.C))]

\* FuseChecksum, one byte: fuses 8k .. 8k+7 of n, the first in bit 0
fuseByte(fuses, n, k) ==
    LET b(j) == IF 8 * k + j < n /\ 8 * k + j \in fuses THEN Pow2(j) ELSE 0
    IN  b(0) + b(1) + b(2) + b(3) + b(4) + b(5) + b(6) + b(7)

RECURSIVE sumBytes(_, _, _, _)
\* the sum of the bytes lo .. hi-1
sumBytes(fuses, n, lo, hi) ==
    IF lo >= hi THEN 0
    ELSE IF hi = lo + 1 THEN fuseByte(fuses, n, lo)
    ELSE LET mid == (lo + hi) \div 2
         IN  sumBytes(fuses, n, lo, mid) + sumBytes(fuses, n, mid, hi)

\* FuseChecksum of a slice of n fuses
FuseChecksum(fuses, n) == sumBytes(fuses, n, 0, (n + 7) \div 8) % 65536

(***************************************************************************)
(* The emitter driver: a GAL is made and filled as BuildGAL fills it, and  *)
(* is then written.                                                        *)
(***************************************************************************)
MaxPlaced == 2

Chips == {"GAL16V8", "GAL22V10"}

\* partno bytes
SigChoices == {<<1, 128, 255>>}

\* the outputs setCoreEqns places: no output (nil), TRUE, a & !b, a # !b
\* with a on pin 2 and b on pin 3
GalTerms ==
    {<<>>,
     <<TrueTerm(1)>>,
     <<[Line |-> 1, Pins |-> <<<<[Pin |-> 2, Neg |-> FALSE], [Pin |-> 3, Neg |-> TRUE]>>>>]>>,
     <<[Line |-> 1, Pins |-> <<<<[Pin |-> 2, Neg |-> FALSE]>>, <<[Pin |-> 3, Neg |-> TRUE]>>>>]>>}

\* the first and the last OLMC of the chip
OlmcPick(chip) == {0, NumOLMCs(chip) - 1}

\* Config: no header and no security bit; a header of two lines, "GAL" and
\* a line that ends in a newline and holds the byte 255, with the security bit
Configs ==
    {[Header |-> <<>>, SecurityBit |-> FALSE],
     [Header |-> <<<<71, 65, 76>>, <<255, 10>>>>, SecurityBit |-> TRUE]}

InitJed == Idle

NewGALStep ==
    /\ jphase = "new"
    /\ \E chip \in Chips : gal' = NewGAL(chip)
    /\ jphase' = "build"
    /\ UNCHANGED <<jed, jplaced, notJedVars>>

SetMode ==
    /\ jphase = "build"
    /\ gal.Chip = "GAL16V8"
    /\ ~gal.Syn
    /\ gal' = SetSimpleMode(gal)
    /\ UNCHANGED <<jed, jplaced, jphase, notJedVars>>

SetSig ==
    /\ jphase = "build"
    /\ ~anyTrue(gal.Sig)
    /\ \E sig \in SigChoices : gal' = setSig(gal, sig)
    /\ UNCHANGED <<jed, jplaced, jphase, notJedVars>>

SetTristate ==
    /\ jphase = "build"
    /\ ~anyTrue(gal.AC1)
    /\ gal' = setTristate(gal, OlmcPick(gal.Chip))
    /\ UNCHANGED <<jed, jplaced, jphase, notJedVars>>

SetXors ==
    /\ jphase = "build"
    /\ ~anyTrue(gal.Xor)
    /\ \E i \in jplaced : gal' = setXors(gal, {i})
    /\ UNCHANGED <<jed, jplaced, jphase, notJedVars>>

\* setCoreEqns, one turn of its loop
SetCoreEqn ==
    /\ jphase = "build"
    /\ Cardinality(jplaced) < MaxPlaced
    /\ \E i \in OlmcPick(gal.Chip) \ jplaced, out \in GalTerms :
          LET bounds == BoundsForOLMC(gal.Chip, i)
              b == IF gal.Chip = "GAL22V10" /\ out # <<>>
                   THEN [bounds EXCEPT !.RowOffset = 1] ELSE bounds
              r == AddTerm(gal, IF out = <<>> THEN FalseTerm(0) ELSE out[1], b)
          IN  /\ r.err = <<>>
              /\ gal' = r.g
              /\ jplaced' = jplaced \cup {i}
    /\ UNCHANGED <<jed, jphase, notJedVars>>

SetPTs ==
    /\ jphase = "build"
    /\ ~anyTrue(gal.PT)
    /\ gal' = setPTs(gal)
    /\ UNCHANGED <<jed, jplaced, jphase, notJedVars>>

WriteJEDEC ==
    /\ jphase = "build"
    /\ \E cfg \in Configs : jed' = MakeJEDEC(cfg, gal)
    /\ jphase' = "written"
    /\ UNCHANGED <<gal, jplaced, notJedVars>>

NextJed ==
    \/ NewGALStep
    \/ SetMode
    \/ SetSig
    \/ SetTristate
    \/ SetXors
    \/ SetCoreEqn
    \/ SetPTs
    \/ WriteJEDEC

SpecJed == InitJed /\ [][NextJed]_vars

\* C10: the value on the *C line is the sum modulo 2^16 of the fuse bytes,
\* the bytes packing all QF fuses of the written map in order, the lowest
\* index in bit 0, eight to a byte, the last byte padded with zeros; the
\* fuses of the rows that were skipped count as zeros at their own indices.
C10_FuseChecksum ==
    jphase = "written" =>
        LET j == ParseJEDEC(jed)
        IN  j.Csum = FuseChecksum(j.Fuses, j.QF)

\* a 22V10 is written whose map has an all-zero row, which has no *L line,
\* before a row with fuses, and the sum of its fuse bytes passes 2^16
C10_Witness ==
    /\ jphase = "written"
    /\ gal.Chip = "GAL22V10"
    /\ \E r \in DOMAIN gal.Fuses :
          /\ ~anyTrue(gal.Fuses[r])
          /\ \A k \in DOMAIN jed.L : jed.L[k].off # dec5(r * NumCols22V10)
          /\ \E q \in DOMAIN gal.Fuses : q > r /\ anyTrue(gal.Fuses[q])
    /\ LET j == ParseJEDEC(jed)
       IN  /\ sumBytes(j.Fuses, j.QF, 0, (j.QF + 7) \div 8) >= 65536
           /\ j.Csum = FuseChecksum(j.Fuses, j.QF)


RECURSIVE byteSum(_, _, _)
\* the sum of the bytes lo .. hi-1 of a text
byteSum(data, lo, hi) ==
    IF lo >= hi THEN 0
    ELSE IF hi = lo + 1 THEN data[lo]
    ELSE LET mid == (lo + hi) \div 2
         IN  byteSum(data, lo, mid) + byteSum(data, mid, hi)

\* C11: the four hex digits written after ETX are the sum modulo 2^16 of all
\* the bytes written before them, the first of them STX and the last ETX.
C11_FileChecksum ==
    jphase = "written" =>
        LET text == fileBytes(jed)
        IN  /\ text[1] = 2
            /\ text[Len(text)] = 3
            /\ parseDigits(jed.trailer, 16, Len(jed.trailer))
                   = byteSum(text, 1, Len(text) + 1) % 65536

\* a 22V10 file with a header is written and the sum of its bytes passes 2^16
C11_Witness ==
    /\ jphase = "written"
    /\ gal.Chip = "GAL22V10"
    /\ jed.Header # <<>>
    /\ jed.G = 1
    /\ byteSum(fileBytes(jed), 1, Len(fileBytes(jed)) + 1) >= 65536
    /\ Len(jed.trailer) = 4

(***************************************************************************)
(* Claims about the written file read back                                 *)
(***************************************************************************)
\* the fuse vector of a GAL at index i, in the order MakeJEDEC walks it: the
\* logic rows, then on the 16V8 XOR, SIG, AC1, PT, SYN, AC0 and on the
\* 22V10 the pairs XOR/AC1 and SIG
fuseAt(g, i) ==
    LET cols  == chipData(g.Chip).numCols
        logic == chipData(g.Chip).numRows * cols
        d     == i - logic
        n     == NumOLMCs(g.Chip)
    IN  IF i < logic THEN g.Fuses[i \div cols][(i % cols) + 1]
        ELSE IF g.Chip = "GAL16V8"
        THEN IF d < n THEN g.Xor[d + 1]
             ELSE IF d < n + 64 THEN g.Sig[d - n + 1]
             ELSE IF d < 2 * n + 64 THEN g.AC1[d - n - 64 + 1]
             ELSE IF d < 2 * n + 128 THEN g.PT[d - 2 * n - 64 + 1]
             ELSE IF d = 2 * n + 128 THEN g.Syn
             ELSE g.AC0
        ELSE IF d < 2 * n
             THEN IF d % 2 = 0 THEN g.Xor[(d \div 2) + 1] ELSE g.AC1[(d \div 2) + 1]
             ELSE g.Sig[d - 2 * n + 1]

\* the offset of a *L line as ParseJEDEC reads it
lineOff(l) == parseDigits(l.off, 10, Len(l.off))

\* every bit of a *L line is the fuse of the GAL at the line's offset plus
\* the bit's place
LineAgrees(vec, l, off) ==
    \A i \in DOMAIN l.bits : (l.bits[i] = 1) <=> vec[off + i - 1]

\* the number of rows lo .. hi-1 of a GAL that are all zeros
RECURSIVE zeroRows(_, _, _)
zeroRows(g, lo, hi) ==
    IF lo >= hi THEN 0
    ELSE IF hi = lo + 1 THEN IF anyTrue(g.Fuses[lo]) THEN 0 ELSE 1
    ELSE zeroRows(g, lo, (lo + hi) \div 2) + zeroRows(g, (lo + hi) \div 2, hi)

\* the number of bits on the lines lo .. hi-1
RECURSIVE bitsOnLines(_, _, _)
bitsOnLines(lines, lo, hi) ==
    IF lo >= hi THEN 0
    ELSE IF hi = lo + 1 THEN Len(lines[lo].bits)
    ELSE bitsOnLines(lines, lo, (lo + hi) \div 2) + bitsOnLines(lines, (lo + hi) \div 2, hi)

\* the lines of a file, with their offsets offs, hold every index below QF
\* once, but those of the all-zero rows of the GAL, which they do not hold:
\* the lines lie below QF one after the other without overlap, none reaches
\* into an all-zero row, and the indices on no line are as many as the
\* all-zero rows have
AccountedOnce(g, j, offs) ==
    LET cols == chipData(g.Chip).numCols
        rows == chipData(g.Chip).numRows
    IN  /\ \A k \in DOMAIN j.L : offs[k] >= 0 /\ offs[k] + Len(j.L[k].bits) <= j.QF
        /\ \A k \in DOMAIN j.L :
              k > 1 => offs[k] >= offs[k - 1] + Len(j.L[k - 1].bits)
        /\ \A r \in 0..(rows - 1) :
              anyTrue(g.Fuses[r]) \/
                 \A k \in DOMAIN j.L :
                    offs[k] + Len(j.L[k].bits) <= r * cols \/ offs[k] >= (r + 1) * cols
        /\ bitsOnLines(j.L, 1, Len(j.L) + 1) + cols * zeroRows(g, 0, rows) = j.QF

\* a file read back, vec the fuse vector of the GAL: its lines account for
\* every fuse once, each bit is the fuse of the GAL at its index, and the
\* fuses read are those of the GAL
ReadsBack(g, j, offs, parsed, vec) ==
    /\ AccountedOnce(g, j, offs)
    /\ \A k \in DOMAIN j.L : LineAgrees(vec, j.L[k], offs[k])
    /\ parsed.QF = j.QF
    /\ \A i \in 0..(j.QF - 1) : (i \in parsed.Fuses) <=> vec[i]
    /\ \A i \in parsed.Fuses : i >= 0

MaxEdits == 2

Modes == {"ModeAuto", "ModeSimple", "ModeComplex", "ModeRegistered"}

\* a term of n product terms, the k-th reading pin k
wideTerm(n) ==
    [Line |-> 1, Pins |-> [k \in 1..n |-> <<[Pin |-> k, Neg |-> FALSE]>>]]

\* the output terms of the driver: FALSE, TRUE, one and two product terms,
\* a term that reads pins 15 and 14, and terms around the row budgets
OutputTerms ==
    {FalseTerm(1), TrueTerm(1),
     [Line |-> 1, Pins |-> <<<<[Pin |-> 2, Neg |-> FALSE], [Pin |-> 3, Neg |-> TRUE]>>>>],
     [Line |-> 1, Pins |-> <<<<[Pin |-> 15, Neg |-> FALSE], [Pin |-> 14, Neg |-> TRUE]>>>>],
     wideTerm(7), wideTerm(8), wideTerm(9)}

\* the OE, AR and SP terms of the driver
SingleTerms ==
    {TrueTerm(2),
     [Line |-> 2, Pins |-> <<<<[Pin |-> 2, Neg |-> FALSE], [Pin |-> 14, Neg |-> TRUE]>>>>],
     [Line |-> 2, Pins |-> <<<<[Pin |-> 2, Neg |-> TRUE]>>, <<[Pin |-> 3, Neg |-> FALSE]>>>>]}

InitBuild == Idle

\* NewBlueprint, and Compile's "bp.ModeHint = gal.ParseModeHint(c.Device)"
NewBlueprintStep ==
    /\ bphase = "none"
    /\ \E chip \in Chips, hint \in Modes :
          /\ chip = "GAL22V10" => hint = "ModeAuto"
          /\ blueprint' = [NewBlueprint(chip) EXCEPT !.ModeHint = hint]
    /\ bphase' = "edit"
    /\ UNCHANGED <<compiledBp, built, bsteps, notBuildVars>>

\* blueprint.OLMC[i].Output, .Active and .Registered are assigned
SetOutput ==
    /\ bphase = "edit" /\ bsteps < MaxEdits
    /\ \E i \in OlmcPick(blueprint.Chip), t \in OutputTerms,
          a \in {"ActiveLow", "ActiveHigh"}, r \in BOOLEAN :
          blueprint' = [blueprint EXCEPT !.OLMC[i + 1].Output = <<t>>,
                           !.OLMC[i + 1].Active = a,
                           !.OLMC[i + 1].Registered = r]
    /\ bsteps' = bsteps + 1
    /\ UNCHANGED <<compiledBp, built, bphase, notBuildVars>>

\* blueprint.OLMC[i].OETerm is assigned
SetOETerm ==
    /\ bphase = "edit" /\ bsteps < MaxEdits
    /\ \E i \in OlmcPick(blueprint.Chip), t \in SingleTerms :
          blueprint' = [blueprint EXCEPT !.OLMC[i + 1].OETerm = <<t>>]
    /\ bsteps' = bsteps + 1
    /\ UNCHANGED <<compiledBp, built, bphase, notBuildVars>>

\* blueprint.OLMC[i].Feedback = true
SetFeedback ==
    /\ bphase = "edit" /\ bsteps < MaxEdits
    /\ \E i \in OlmcPick(blueprint.Chip) :
          blueprint' = [blueprint EXCEPT !.OLMC[i + 1].Feedback = TRUE]
    /\ bsteps' = bsteps + 1
    /\ UNCHANGED <<compiledBp, built, bphase, notBuildVars>>

\* blueprint.AR or blueprint.SP is assigned
SetARSP ==
    /\ bphase = "edit" /\ bsteps < MaxEdits
    /\ \E t \in SingleTerms :
          \/ blueprint' = [blueprint EXCEPT !.AR = <<t>>]
          \/ blueprint' = [blueprint EXCEPT !.SP = <<t>>]
    /\ bsteps' = bsteps + 1
    /\ UNCHANGED <<compiledBp, built, bphase, notBuildVars>>

\* the end of Compile: the feedback flip of the blueprint it has filled
Flip ==
    /\ bphase = "edit"
    /\ compiledBp' = blueprint
    /\ blueprint' = flipFeedback(blueprint)
    /\ bphase' = "flipped"
    /\ UNCHANGED <<built, bsteps, notBuildVars>>

\* BuildGAL(blueprint), called by Compile after the flip or directly
Build ==
    /\ bphase \in {"edit", "flipped"}
    /\ built' = [mode |-> IF blueprint.Chip = "GAL16V8" THEN detectMode(blueprint) ELSE "none",
                  g    |-> BuildGAL(blueprint).g,
                  err  |-> BuildGAL(blueprint).err]
    /\ bphase' = "built"
    /\ UNCHANGED <<blueprint, compiledBp, bsteps, notBuildVars>>

NextBuild ==
    \/ NewBlueprintStep
    \/ SetOutput
    \/ SetOETerm
    \/ SetFeedback
    \/ SetARSP
    \/ Flip
    \/ Build

SpecBuild == InitBuild /\ [][NextBuild]_vars

(***************************************************************************)
(* Claims about BuildGAL                                                   *)
(***************************************************************************)
\* BuildGAL returned a GAL
Built == bphase = "built" /\ built.err = <<>>

\* the row a one-product-term term leaves in a fresh row of g
literalRow(g, t) ==
    [c \in 1..chipData(g.Chip).numCols |->
        ~\E k \in DOMAIN t.Pins[1] :
            c = pinToColumn(g, t.Pins[1][k].Pin) + (IF t.Pins[1][k].Neg THEN 1 ELSE 0) + 1]

\* row 0 of the block of OLMC i is the OE row: the OE term when one is
\* given, all 1s when none is given
IsOERow(i) ==
    LET row == built.g.Fuses[BoundsForOLMC(blueprint.Chip, i).StartRow]
        oe == blueprint.OLMC[i + 1].OETerm
    IN  IF oe = <<>> THEN row = boolSlice(chipData(blueprint.Chip).numCols, TRUE)
        ELSE row = literalRow(built.g, oe[1])

\* C12: after BuildGAL on a 22V10, and on a 16V8 in Complex mode and in
\* Registered mode, row 0 of the row block of every OLMC with a defined
\* output is the OE row: it holds the explicit OE term when one is given and
\* is all 1s when none is given, and no output product term is written to it.
C12_OERow ==
    (Built /\ (blueprint.Chip = "GAL22V10" \/ built.mode \in {"ModeComplex", "ModeRegistered"}))
        => \A i \in 0..(Len(blueprint.OLMC) - 1) :
               blueprint.OLMC[i + 1].Output # <<>> => IsOERow(i)

\* the same on the 22V10 and in Complex mode only
C12_OERowComplex ==
    (Built /\ (blueprint.Chip = "GAL22V10" \/ built.mode = "ModeComplex"))
        => \A i \in 0..(Len(blueprint.OLMC) - 1) :
               blueprint.OLMC[i + 1].Output # <<>> => IsOERow(i)

\* some OLMC of the blueprint is registered
AnyRegistered == \E n \in DOMAIN blueprint.OLMC : blueprint.OLMC[n].Registered

\* some OLMC has an explicit OE term, some output term has a literal on pin
\* 15 or 16, or some OLMC has a placed output and feedback use
AnyComplexUse ==
    \/ \E n \in DOMAIN blueprint.OLMC : blueprint.OLMC[n].OETerm # <<>>
    \/ \E n \in DOMAIN blueprint.OLMC :
          /\ blueprint.OLMC[n].Output # <<>>
          /\ \E r \in DOMAIN blueprint.OLMC[n].Output[1].Pins :
                \E c \in DOMAIN blueprint.OLMC[n].Output[1].Pins[r] :
                    blueprint.OLMC[n].Output[1].Pins[r][c].Pin \in {15, 16}
    \/ \E n \in DOMAIN blueprint.OLMC :
          blueprint.OLMC[n].Output # <<>> /\ blueprint.OLMC[n].Feedback

\* C14: on a 16V8 a forced mode is the selected mode whatever the blueprint
\* contains; otherwise the mode is Registered if any OLMC is registered, else
\* Complex if any OLMC has an explicit OE term, any output literal reads pin
\* 15 or 16, or any OLMC has a placed output and feedback use, else Simple.
C14_ModeSelection ==
    (bphase = "built" /\ blueprint.Chip = "GAL16V8") =>
        /\ built.mode \in {"ModeSimple", "ModeComplex", "ModeRegistered"}
        /\ blueprint.ModeHint # "ModeAuto" => built.mode = blueprint.ModeHint
        /\ (blueprint.ModeHint = "ModeAuto" /\ AnyRegistered)
               => built.mode = "ModeRegistered"
        /\ (blueprint.ModeHint = "ModeAuto" /\ ~AnyRegistered /\ AnyComplexUse)
               => built.mode = "ModeComplex"
        /\ (blueprint.ModeHint = "ModeAuto" /\ ~AnyRegistered /\ ~AnyComplexUse)
               => built.mode = "ModeSimple"

\* a registered OLMC and an explicit OE term without a forced mode: the
\* Registered case is tried before the Complex cases
C14_Witness ==
    /\ bphase = "built" /\ blueprint.Chip = "GAL16V8"
    /\ blueprint.ModeHint = "ModeAuto"
    /\ AnyRegistered
    /\ \E n \in DOMAIN blueprint.OLMC : blueprint.OLMC[n].OETerm # <<>>
    /\ built.mode = "ModeRegistered"

\* the AC1 bit of OLMC i, stored at index NumOLMCs-1-i of the slice
AC1Of(i) == built.g.AC1[(NumOLMCs(blueprint.Chip) - 1 - i) + 1]

XorOf(i) == built.g.Xor[(NumOLMCs(blueprint.Chip) - 1 - i) + 1]

\* C16 as stated: after BuildGAL the XOR fuse of OLMC i is set if and only
\* if the OLMC is active-high and its output has at least one placed product
\* term, so that an active-high output with an empty term list has XOR = 0.
C16_XorIffPlacedTerm ==
    Built =>
        \A i \in 0..(NumOLMCs(blueprint.Chip) - 1) :
            XorOf(i) <=> /\ blueprint.OLMC[i + 1].Active = "ActiveHigh"
                         /\ blueprint.OLMC[i + 1].Output # <<>>
                         /\ Len(blueprint.OLMC[i + 1].Output[1].Pins) >= 1

\* C16, amended: after BuildGAL the XOR fuse of OLMC i is set if and only if
\* the OLMC is active-high and has a defined output, whether or not the
\* output's term list is empty; every unused OLMC has XOR = 0.
C16_XorIffDefined ==
    Built =>
        \A i \in 0..(NumOLMCs(blueprint.Chip) - 1) :
            XorOf(i) <=> /\ blueprint.OLMC[i + 1].Active = "ActiveHigh"
                         /\ blueprint.OLMC[i + 1].Output # <<>>

\* an active-high FALSE output on the first OLMC, its XOR fuse set, and an
\* active-low output on the last OLMC, its XOR fuse clear
C16_Witness ==
    /\ Built
    /\ blueprint.OLMC[1].Output = <<FalseTerm(1)>>
    /\ blueprint.OLMC[1].Active = "ActiveHigh"
    /\ XorOf(0)
    /\ blueprint.OLMC[NumOLMCs(blueprint.Chip)].Output # <<>>
    /\ blueprint.OLMC[NumOLMCs(blueprint.Chip)].Active = "ActiveLow"
    /\ ~XorOf(NumOLMCs(blueprint.Chip) - 1)

\* the bounds setCoreEqns hands to AddTerm for the output term of OLMC i
OutputBounds(i) ==
    LET b == BoundsForOLMC(blueprint.Chip, i)
    IN  IF blueprint.Chip = "GAL22V10" \/ (built.g.Syn /\ built.g.AC0)
        THEN [b EXCEPT !.RowOffset = 1] ELSE b

\* the row of built.g is all 1s; all 0s
AllOnes(row) == built.g.Fuses[row] = boolSlice(chipData(blueprint.Chip).numCols, TRUE)
AllZeros(row) == built.g.Fuses[row] = boolSlice(chipData(blueprint.Chip).numCols, FALSE)

\* the rows of the bounds after the first row AddTerm writes are cleared
RestCleared(b) ==
    \A row \in (b.StartRow + b.RowOffset + 1)..(b.StartRow + b.MaxRows - 1) : AllZeros(row)

\* C17 as stated: a TRUE product term placed with AddTerm leaves its row as a
\* row of all-zero fuses, and the row counts as one used row of the block.
C17_TrueRowAllZero ==
    Built =>
        \A i \in 0..(NumOLMCs(blueprint.Chip) - 1) :
            blueprint.OLMC[i + 1].Output = <<TrueTerm(1)>> =>
                /\ AllZeros(OutputBounds(i).StartRow + OutputBounds(i).RowOffset)
                /\ RestCleared(OutputBounds(i))

\* C17, amended: a TRUE product term placed with AddTerm clears no fuse, so
\* its row stays all 1s as NewGAL made it; the row counts as one used row:
\* the rows after it in the bounds are the ones cleared to 0.  The same
\* holds of a TRUE term on the AR row of the 22V10.
C17_TrueRowAllOnes ==
    Built =>
        /\ \A i \in 0..(NumOLMCs(blueprint.Chip) - 1) :
              blueprint.OLMC[i + 1].Output = <<TrueTerm(1)>> =>
                  /\ AllOnes(OutputBounds(i).StartRow + OutputBounds(i).RowOffset)
                  /\ RestCleared(OutputBounds(i))
        /\ (blueprint.Chip = "GAL22V10" /\ blueprint.AR = <<TrueTerm(2)>>) => AllOnes(0)

\* a 22V10 with the TRUE term as the output of the first OLMC: the row after
\* the OE row is all 1s and the row after that is cleared
C17_Witness ==
    /\ Built /\ blueprint.Chip = "GAL22V10"
    /\ blueprint.OLMC[1].Output = <<TrueTerm(1)>>
    /\ AllOnes(OutputBounds(0).StartRow + 1)
    /\ AllZeros(OutputBounds(0).StartRow + 2)

\* the row of built.g holds the one product term of t, or is all 0s when t
\* is nil
HoldsTerm(row, t) ==
    IF t = <<>> THEN AllZeros(row) ELSE built.g.Fuses[row] = literalRow(built.g, t[1])

\* C20: on the 22V10 the AR term is written into row 0 of the fuse grid and
\* the SP term into row 131, each literal clearing the fuse at the pin's
\* true column (plus 1 when negated); when AR or SP is absent its row is all
\* 0s; whatever the OLMCs' output and OE terms are, the two rows hold
\* nothing else.
C20_ARSPRows ==
    (Built /\ blueprint.Chip = "GAL22V10") =>
        /\ HoldsTerm(0, blueprint.AR)
        /\ HoldsTerm(131, blueprint.SP)

\* a 22V10 with AR = pin 2 & !pin 3, no SP and an output on the first OLMC,
\* whose block is rows 122..130: row 0 has exactly two fuses cleared
C20_Witness ==
    /\ Built /\ blueprint.Chip = "GAL22V10"
    /\ blueprint.AR # <<>> /\ Len(blueprint.AR[1].Pins[1]) = 2
    /\ blueprint.SP = <<>>
    /\ blueprint.OLMC[1].Output # <<>> /\ blueprint.OLMC[1].Output[1].Pins # <<>>
    /\ Cardinality({c \in 1..44 : ~built.g.Fuses[0][c]}) = 2
    /\ AllZeros(131)
    /\ ~AllZeros(BoundsForOLMC("GAL22V10", 0).StartRow + 1)

(***************************************************************************)
(* Claims about the feedback flip                                          *)
(***************************************************************************)
\* pin p is the pin of an OLMC that is registered and active-high in the
\* compiled blueprint
NeedsFlip(p) ==
    /\ p - chipData(compiledBp.Chip).minOLMC + 1 \in DOMAIN compiledBp.OLMC
    /\ compiledBp.OLMC[p - chipData(compiledBp.Chip).minOLMC + 1].Registered
    /\ compiledBp.OLMC[p - chipData(compiledBp.Chip).minOLMC + 1].Active = "ActiveHigh"

\* term pointer b is term pointer a with exactly the literals on flipped pins
\* inverted (on a 22V10), or with nothing inverted (on a 16V8)
FlippedOnce(a, b) ==
    IF a = <<>> THEN b = <<>>
    ELSE /\ b # <<>>
         /\ b[1].Line = a[1].Line
         /\ DOMAIN b[1].Pins = DOMAIN a[1].Pins
         /\ \A r \in DOMAIN a[1].Pins :
               /\ DOMAIN b[1].Pins[r] = DOMAIN a[1].Pins[r]
               /\ \A c \in DOMAIN a[1].Pins[r] :
                     /\ b[1].Pins[r][c].Pin = a[1].Pins[r][c].Pin
                     /\ (b[1].Pins[r][c].Neg # a[1].Pins[r][c].Neg)
                            <=> (compiledBp.Chip = "GAL22V10" /\ NeedsFlip(a[1].Pins[r][c].Pin))

\* C13: in the terms handed to placement a literal on pin p is inverted,
\* relative to the compiled term, if and only if the device is a 22V10 and
\* p's OLMC is both registered and active-high; this holds in every Output,
\* OE, AR and SP term, the literals on other pins are unchanged, and on a
\* 16V8 no literal is flipped.
C13_FeedbackFlip ==
    compiledBp # <<>> =>
        /\ \A n \in DOMAIN compiledBp.OLMC :
              /\ FlippedOnce(compiledBp.OLMC[n].Output, blueprint.OLMC[n].Output)
              /\ FlippedOnce(compiledBp.OLMC[n].OETerm, blueprint.OLMC[n].OETerm)
        /\ FlippedOnce(compiledBp.AR, blueprint.AR)
        /\ FlippedOnce(compiledBp.SP, blueprint.SP)

\* a 22V10 whose first OLMC (pin 14) is registered and active-high and
\* whose AR term 2 & !14 is handed to placement as 2 & 14
C13_Witness ==
    /\ bphase = "flipped" /\ blueprint.Chip = "GAL22V10"
    /\ compiledBp.OLMC[1].Registered /\ compiledBp.OLMC[1].Active = "ActiveHigh"
    /\ compiledBp.AR # <<>>
    /\ compiledBp.AR[1].Pins = <<<<[Pin |-> 2, Neg |-> FALSE], [Pin |-> 14, Neg |-> TRUE]>>>>
    /\ blueprint.AR[1].Pins = <<<<[Pin |-> 2, Neg |-> FALSE], [Pin |-> 14, Neg |-> FALSE]>>>>

(***************************************************************************)
(* Claims about capacity                                                   *)
(***************************************************************************)
\* the error is one of AddTerm's two capacity errors
CapacityError(err) ==
    err # <<>> /\ err[1] \in {"too many product terms", "more than one product term"}

\* the rows the claim reserves for OE in the block of an OLMC
ReservedRows ==
    IF blueprint.Chip = "GAL22V10" \/ built.mode \in {"ModeComplex", "ModeRegistered"}
    THEN 1 ELSE 0

\* some output has more product terms than its row budget less the reserved
\* row, or some OE, AR or SP term has more than one product term
OverBudget ==
    \/ \E i \in 0..(NumOLMCs(blueprint.Chip) - 1) :
          /\ blueprint.OLMC[i + 1].Output # <<>>
          /\ Len(blueprint.OLMC[i + 1].Output[1].Pins)
                 > NumRowsForOLMC(blueprint.Chip, i) - ReservedRows
    \/ \E i \in 0..(NumOLMCs(blueprint.Chip) - 1) :
          /\ blueprint.OLMC[i + 1].OETerm # <<>>
          /\ Len(blueprint.OLMC[i + 1].OETerm[1].Pins) > 1
    \/ blueprint.AR # <<>> /\ Len(blueprint.AR[1].Pins) > 1
    \/ blueprint.SP # <<>> /\ Len(blueprint.SP[1].Pins) > 1

\* C18: building returns an error if some output has, after minimization,
\* more product terms than its OLMC's row budget minus the reserved OE row
\* (one row reserved on the 22V10 and on the 16V8 in Complex and Registered
\* mode), or an OE, AR or SP term has more than one product term; it returns
\* a capacity error only then, so that a design exactly at the budget builds.
C18_Capacity ==
    bphase = "built" =>
        /\ OverBudget => built.err # <<>>
        /\ CapacityError(built.err) => OverBudget

(***************************************************************************)
(* Claims about a forced mode                                              *)
(***************************************************************************)
\* C24: building a 16V8 design whose mode is forced to Simple or Complex by
\* the device mnemonic and that contains a registered output returns an
\* error instead of a fuse map.
C24_ModeConflict ==
    (/\ bphase = "built"
     /\ blueprint.Chip = "GAL16V8"
     /\ blueprint.ModeHint \in {"ModeSimple", "ModeComplex"}
     /\ \E n \in DOMAIN blueprint.OLMC :
           blueprint.OLMC[n].Registered /\ blueprint.OLMC[n].Output # <<>>)
        => built.err # <<>> /\ built.g = <<>>

(***************************************************************************)
(* Claims about the pin-to-column table                                    *)
(***************************************************************************)
\* the pins some output term of the blueprint reads
OutputPinsRead ==
    UNION {termPins(blueprint.OLMC[n].Output[1]) :
              n \in {k \in DOMAIN blueprint.OLMC : blueprint.OLMC[k].Output # <<>>}}

\* the pins without a column on every chip: the two power pins and the pin
\* numbers outside 1..pin count (checked a few numbers to either side)
NoColumnPins(chip) ==
    {chipData(chip).numPins \div 2, chipData(chip).numPins}
        \cup (-2..0) \cup ((chipData(chip).numPins + 1)..(chipData(chip).numPins + 3))

MaxCalls == 2

\* the terms of the calls: FALSE, TRUE, one row, two rows, nine rows, and
\* two rows of which the second reads pin 24 after pin 3 (pin 24 is the
\* power pin of the 22V10 and no pin of the 16V8)
PlaceTerms ==
    {FalseTerm(1), TrueTerm(1),
     [Line |-> 1, Pins |-> <<<<[Pin |-> 2, Neg |-> FALSE], [Pin |-> 3, Neg |-> TRUE]>>>>],
     [Line |-> 1, Pins |-> <<<<[Pin |-> 2, Neg |-> TRUE]>>, <<[Pin |-> 3, Neg |-> FALSE]>>>>],
     wideTerm(9),
     [Line |-> 1, Pins |-> <<<<[Pin |-> 2, Neg |-> FALSE]>>,
                             <<[Pin |-> 3, Neg |-> FALSE], [Pin |-> 24, Neg |-> FALSE]>>>>]}

\* the bounds of the calls BuildGAL makes for the first and the last OLMC:
\* the block with and without the reserved row, the OE row, and the AR and
\* SP rows of the 22V10
PlaceBounds(chip) ==
    {[BoundsForOLMC(chip, i) EXCEPT !.RowOffset = o] : i \in OlmcPick(chip), o \in {0, 1}}
        \cup {[StartRow |-> BoundsForOLMC(chip, i).StartRow, MaxRows |-> 1, RowOffset |-> 0] :
                 i \in OlmcPick(chip)}
        \cup (IF chip = "GAL22V10"
              THEN {[StartRow |-> 0, MaxRows |-> 1, RowOffset |-> 0],
                    [StartRow |-> 131, MaxRows |-> 1, RowOffset |-> 0]}
              ELSE {})

InitPlace == Idle

\* NewGAL(chip)
NewGALForPlace ==
    /\ bphase = "none"
    /\ placing = <<>>
    /\ \E chip \in Chips :
          placing' = [prev |-> NewGAL(chip), g |-> NewGAL(chip), term |-> FalseTerm(0),
                      bounds |-> [StartRow |-> 0, MaxRows |-> 0, RowOffset |-> 0],
                      err |-> <<>>]
    /\ UNCHANGED <<pcalls, notPlaceVars>>

\* g.AddTerm(term, bounds): the GAL is left as the call wrote it, also when
\* the call returns an error
AddTermCall ==
    /\ placing # <<>>
    /\ pcalls < MaxCalls
    /\ \E term \in PlaceTerms, bounds \in PlaceBounds(placing.g.Chip) :
          placing' = [prev |-> placing.g, g |-> AddTerm(placing.g, term, bounds).g,
                      term |-> term, bounds |-> bounds,
                      err |-> AddTerm(placing.g, term, bounds).err]
    /\ pcalls' = pcalls + 1
    /\ UNCHANGED notPlaceVars

\* the BuildGAL driver, when AddTerm is not called directly
BuildSteps == placing = <<>> /\ NextBuild

NextPlace == NewGALForPlace \/ AddTermCall \/ BuildSteps

SpecPlace == InitPlace /\ [][NextPlace]_vars

(***************************************************************************)
(* Claims about the frame of placement                                     *)
(***************************************************************************)
\* the last call of AddTerm changed only fuses in the rows StartRow+RowOffset
\* .. StartRow+MaxRows-1, set no fuse to 1, and changed nothing else of the GAL
FrameOfAddTerm ==
    LET b  == placing.bounds
        lo == b.StartRow + b.RowOffset
        hi == b.StartRow + b.MaxRows - 1
    IN  /\ \A row \in DOMAIN placing.g.Fuses :
              /\ row \notin lo..hi => placing.g.Fuses[row] = placing.prev.Fuses[row]
              /\ \A c \in DOMAIN placing.g.Fuses[row] :
                    placing.g.Fuses[row][c] => placing.prev.Fuses[row][c]
        /\ DOMAIN placing.g.Fuses = DOMAIN placing.prev.Fuses
        /\ placing.g.Chip = placing.prev.Chip
        /\ placing.g.Xor = placing.prev.Xor /\ placing.g.AC1 = placing.prev.AC1
        /\ placing.g.Sig = placing.prev.Sig /\ placing.g.PT = placing.prev.PT
        /\ placing.g.Syn = placing.prev.Syn /\ placing.g.AC0 = placing.prev.AC0

\* the rows of the block of OLMC i
BlockRows(chip, i) ==
    BoundsForOLMC(chip, i).StartRow
        ..(BoundsForOLMC(chip, i).StartRow + BoundsForOLMC(chip, i).MaxRows - 1)

\* the rows setARSP writes
GlobalRows(chip) == IF chip = "GAL22V10" THEN {0, 131} ELSE {}

\* the row blocks of all OLMCs and the AR and SP rows are pairwise disjoint
\* and cover every row of the AND array
RowsPartitioned(chip) ==
    /\ \A i, j \in 0..(NumOLMCs(chip) - 1) :
          i # j => BlockRows(chip, i) \cap BlockRows(chip, j) = {}
    /\ \A i \in 0..(NumOLMCs(chip) - 1) : BlockRows(chip, i) \cap GlobalRows(chip) = {}
    /\ Cardinality(GlobalRows(chip)) = (IF chip = "GAL22V10" THEN 2 ELSE 0)
    /\ UNION {BlockRows(chip, i) : i \in 0..(NumOLMCs(chip) - 1)} \cup GlobalRows(chip)
          = 0..(chipData(chip).numRows - 1)

\* the row the inputs of one product term leave in a fresh row of g
RowOfInputs(g, inputs) ==
    [c \in 1..chipData(g.Chip).numCols |->
        ~\E k \in DOMAIN inputs :
            c = pinToColumn(g, inputs[k].Pin) + (IF inputs[k].Neg THEN 1 ELSE 0) + 1]

\* row r of the built GAL holds a product term of t
HoldsRowOf(r, t) ==
    t # <<>> /\ \E n \in DOMAIN t[1].Pins : built.g.Fuses[r] = RowOfInputs(built.g, t[1].Pins[n])

\* row r of the built GAL is a placed term row: a product term of the
\* output of the OLMC whose block it is in, or of AR in row 0 or SP in row 131
IsPlacedRow(r) ==
    \/ \E i \in 0..(Len(blueprint.OLMC) - 1) :
          r \in BlockRows(blueprint.Chip, i) /\ HoldsRowOf(r, blueprint.OLMC[i + 1].Output)
    \/ blueprint.Chip = "GAL22V10" /\ r = 0 /\ HoldsRowOf(r, blueprint.AR)
    \/ blueprint.Chip = "GAL22V10" /\ r = 131 /\ HoldsRowOf(r, blueprint.SP)

\* row r of the built GAL is the OE row of an OLMC with an output: all 1s,
\* or the OE term
IsOERowAt(r) ==
    \E i \in 0..(Len(blueprint.OLMC) - 1) :
        /\ r = BoundsForOLMC(blueprint.Chip, i).StartRow
        /\ blueprint.OLMC[i + 1].Output # <<>>
        /\ \/ AllOnes(r)
           \/ HoldsRowOf(r, blueprint.OLMC[i + 1].OETerm)

\* the GAL BuildGAL hands to setCoreEqns
beforeTristate(bp) ==
    setSig(IF bp.Chip = "GAL16V8" THEN setMode(NewGAL(bp.Chip), detectMode(bp))
                                  ELSE NewGAL(bp.Chip), bp.Sig)

beforeCoreEqns(bp) ==
    setARSP(setXors(setTristate(beforeTristate(bp),
                                {i \in 0..(Len(bp.OLMC) - 1) : isTri(beforeTristate(bp), bp, i)}),
                    xorSet(bp)), bp)

RECURSIVE setCoreEqnsIn(_, _, _, _)
\* the loop of setCoreEqns with its turns taken in the given order of OLMCs
setCoreEqnsIn(g, bp, order, k) ==
    IF k > Len(order) THEN [g |-> g, err |-> <<>>]
    ELSE LET i == order[k]
             olmc == bp.OLMC[i + 1]
             isComplex == bp.Chip = "GAL16V8" /\ g.Syn /\ g.AC0
             hasOERow == bp.Chip = "GAL22V10" \/ isComplex
             bounds == BoundsForOLMC(g.Chip, i)
             oe == IF hasOERow /\ olmc.Output # <<>> /\ olmc.OETerm # <<>>
                   THEN AddTerm(g, olmc.OETerm[1],
                                [StartRow |-> bounds.StartRow, MaxRows |-> 1, RowOffset |-> 0])
                   ELSE [g |-> g, err |-> <<>>]
             b == IF hasOERow /\ olmc.Output # <<>>
                  THEN [bounds EXCEPT !.RowOffset = 1] ELSE bounds
         IN  IF oe.err # <<>> THEN oe
             ELSE LET out == AddTermOpt(oe.g, olmc.Output, b)
                  IN  IF out.err # <<>> THEN out ELSE setCoreEqnsIn(out.g, bp, order, k + 1)

\* the OLMC indices from the first to the last, from the last to the first,
\* and with the last OLMC moved to the front
IndexOrder(n) == [k \in 1..n |-> k - 1]
ReverseOrder(n) == [k \in 1..n |-> n - k]
LastFirstOrder(n) == [k \in 1..n |-> IF k = 1 THEN n - 1 ELSE k - 2]

\* the loop ended without error and left the grid fuses
LeavesGrid(res, fuses) ==
    res.err = <<>> /\ \A r \in DOMAIN fuses : res.g.Fuses[r] = fuses[r]

\* the grid setCoreEqns leaves is the grid its loop leaves in each of the orders
GridOrderFree(bp, fuses) ==
    \A order \in {IndexOrder(Len(bp.OLMC)), ReverseOrder(Len(bp.OLMC)),
                  LastFirstOrder(Len(bp.OLMC))} :
        LeavesGrid(setCoreEqnsIn(beforeCoreEqns(bp).g, bp, order, 1), fuses)

\* C30: AddTerm with bounds (StartRow, MaxRows, RowOffset) changes only
\* fuses in rows StartRow+RowOffset .. StartRow+MaxRows-1, also when it
\* fails part-way, and never sets a fuse to 1; the row blocks of all OLMCs
\* together with the AR row 0 and the SP row 131 (22V10) are pairwise
\* disjoint and cover every row of the AND array exactly once, so after
\* BuildGAL every row is either a placed term row, an OE row, or all 0s, and
\* the resulting fuse grid does not depend on the order in which the OLMCs
\* are placed.
C30_PlacementFrame ==
    /\ pcalls > 0 => FrameOfAddTerm
    /\ \A chip \in Chips : RowsPartitioned(chip)
    /\ Built =>
          /\ \A r \in DOMAIN built.g.Fuses :
                IsPlacedRow(r) \/ IsOERowAt(r) \/ AllZeros(r)
          /\ GridOrderFree(blueprint, built.g.Fuses)

\* a second call of AddTerm that fails after it has written a part of its
\* term into a block that the first call had filled
C30_Witness ==
    /\ pcalls = 2
    /\ placing.err # <<>>
    /\ \E r \in DOMAIN placing.g.Fuses : placing.g.Fuses[r] # placing.prev.Fuses[r]
    /\ placing.bounds.RowOffset = 1
    /\ \E c \in DOMAIN placing.prev.Fuses[placing.bounds.StartRow + 1] :
          ~placing.prev.Fuses[placing.bounds.StartRow + 1][c]

(***************************************************************************)
(* part_004: Compile to its end, "return gal.BuildGAL(bp)"                 *)
(***************************************************************************)
\* the gal.Blueprint Compile has filled: c holds its OLMC fields by OLMC
toBlueprint(c) ==
    [NewBlueprint("GAL22V10") EXCEPT
        !.OLMC = [n \in DOMAIN @ |->
                    [Active     |-> IF (n - 1) \in DOMAIN c.Output
                                    THEN c.Output[n - 1].Active ELSE "ActiveLow",
                     Output     |-> IF (n - 1) \in DOMAIN c.Output
                                    THEN <<[Line |-> c.Output[n - 1].Line,
                                            Pins |-> c.Output[n - 1].Pins]>>
                                    ELSE <<>>,
                     Feedback   |-> (n - 1) \in c.Feedback,
                     Registered |-> (n - 1) \in c.Registered,
                     OETerm     |-> IF (n - 1) \in DOMAIN c.OETerm
                                    THEN <<c.OETerm[n - 1]>> ELSE <<>>]],
        !.AR = c.AR,
        !.SP = c.SP]

\* the end of Compile, from the outcome c of its loops: the error and no
\* GAL, or what BuildGAL returns for the blueprint after the feedback flip
CompileGAL(c) ==
    IF c.err # <<>> THEN [mode |-> "none", g |-> <<>>, err |-> c.err]
    ELSE [mode |-> "none", g |-> BuildGAL(flipFeedback(toBlueprint(c))).g,
          err |-> BuildGAL(flipFeedback(toBlueprint(c))).err]

(***************************************************************************)
(* Driver of Compile for sequences of equations with APPEND and .OE        *)
(***************************************************************************)
MaxSeq == 3

\* the Pin statements: a on pin 1, y on pin 22, and z on the output pin 23
\* or on the input pin 2
PinMaps ==
    {[p \in {1, 22, 23} |-> [Name |-> IF p = 1 THEN 1 ELSE IF p = 22 THEN 3 ELSE 4,
                             ActiveLow |-> FALSE]],
     [p \in {1, 2, 22} |-> [Name |-> IF p = 1 THEN 1 ELSE IF p = 22 THEN 3 ELSE 4,
                            ActiveLow |-> FALSE]]}

\* the extensions of a left-hand side: none, or .OE (normalised to E)
Extensions == {"", "E"}

\* parsePin, for all the Pin statements of the Content
ParsePins ==
    /\ cphase = "parse"
    /\ cPins = <<>> /\ cEqs = <<>>
    /\ \E m \in PinMaps : cPins' = m
    /\ UNCHANGED <<cEqs, run1, run2, cphase, notCompVars>>

\* parseEquation: [APPEND] name[.OE] = ident; an output enable is the
\* input a
ParseEquationExt ==
    /\ cphase = "parse"
    /\ cPins # <<>>
    /\ Len(cEqs) < MaxSeq
    /\ \E lhs \in LhsNames, rhs \in RhsNames, app \in BOOLEAN, ext \in Extensions :
          /\ ext = "E" => rhs = 1
          /\ cEqs' = Append(cEqs, [Line |-> Len(cEqs) + 1, LHS |-> lhs, Ext |-> ext,
                                   Low |-> FALSE, RHS |-> ExprIdent(rhs), Append |-> app])
    /\ UNCHANGED <<cPins, run1, run2, cphase, notCompVars>>

\* Compile(c) to its "return gal.BuildGAL(bp)": run1 is the outcome of the
\* loops of Compile, built what Compile returns.
\* The runtime chooses the order it iterates accum in; the pin names are
\* distinct, so the order it iterates c.Pins in makes no difference.
CompileToGAL ==
    /\ cphase = "parse"
    /\ cPins # <<>>
    /\ \E pinOrder \in {o \in Orders(DOMAIN cPins) : \A k \in 1..(Len(o) - 1) : o[k] < o[k + 1]},
          olmcOrder \in Orders(OlmcChoices) :
          run1' = Compile(cPins, cEqs, pinOrder, olmcOrder)
    /\ built' = CompileGAL(run1')
    /\ cphase' = "first"
    /\ UNCHANGED <<cPins, cEqs, run2, blueprint, compiledBp, bsteps, bphase,
                   minVars, rangeVars, jedVars, placeVars, exprVars>>

NextRedefine == ParsePins \/ ParseEquationExt \/ CompileToGAL

SpecRedefine == InitCompile /\ [][NextRedefine]_vars

(***************************************************************************)
(* Claims about redefinition                                               *)
(***************************************************************************)
\* the pin whose Pin statement names the left-hand side of equation k; 0
\* when the left-hand side is no pin name
TargetPin(k) ==
    IF \E p \in DOMAIN cPins : cPins[p].Name = cEqs[k].LHS
    THEN CHOOSE p \in DOMAIN cPins : cPins[p].Name = cEqs[k].LHS
    ELSE 0

\* equation k targets an output pin, as an output equation; as an OE equation
OutputEq(k) == TargetPin(k) # 0 /\ PinToOLMC(TargetPin(k)).ok /\ cEqs[k].Ext # "E"
OEEq(k) == TargetPin(k) # 0 /\ PinToOLMC(TargetPin(k)).ok /\ cEqs[k].Ext = "E"

\* equation k has no APPEND and targets the output pin of an earlier non-OE
\* equation
Redefines(k) ==
    /\ OutputEq(k) /\ ~cEqs[k].Append
    /\ \E j \in 1..(k - 1) : OutputEq(j) /\ TargetPin(j) = TargetPin(k)

\* equation k is a second OE equation for its pin
SecondOE(k) ==
    /\ OEEq(k)
    /\ \E j \in 1..(k - 1) : OEEq(j) /\ TargetPin(j) = TargetPin(k)

\* Compile returned the error 'output ... already defined'
AlreadyDefined == Len(built.err) = 4 /\ built.err[3] = "already defined"

\* C19 as stated: for any sequence of equations Compile returns an 'already
\* defined' error if and only if an equation without APPEND targets an
\* output pin that an earlier non-OE equation already targets; a second OE
\* equation for the same pin is an error even with APPEND; and an error
\* return carries no fuse map.
C19_AlreadyDefinedIff ==
    cphase = "first" =>
        /\ AlreadyDefined <=> \E k \in DOMAIN cEqs : Redefines(k)
        /\ (\E k \in DOMAIN cEqs : SecondOE(k)) => built.err # <<>>
        /\ built.err # <<>> => built.g = <<>>

\* equation k targets a pin that is no output pin
BadOutputPin(k) == TargetPin(k) # 0 /\ ~PinToOLMC(TargetPin(k)).ok

\* equation k targets a pin and its right-hand side is the alias b (name 2)
\* whose last definition is  b = b
CyclicAlias(k) ==
    /\ TargetPin(k) # 0
    /\ cEqs[k].RHS = ExprIdent(2)
    /\ LET defs == {j \in DOMAIN cEqs :
                       cEqs[j].LHS = 2 /\ ~cEqs[j].Append /\ cEqs[j].Ext = ""}
       IN  /\ defs # {}
           /\ cEqs[CHOOSE j \in defs : \A m \in defs : m <= j].RHS = ExprIdent(2)

\* no check of Compile fails before the accumulation loop reaches equation
\* k: no equation's expression fails to compile, and no earlier equation
\* targets a pin that is no output pin or is a second OE equation
ReachedWithoutError(k) ==
    /\ \A m \in DOMAIN cEqs : ~CyclicAlias(m)
    /\ \A j \in 1..(k - 1) : ~BadOutputPin(j) /\ ~SecondOE(j)

\* C19, amended: Compile fails whenever an equation without APPEND targets
\* an output pin that an earlier non-OE equation already targets, and the
\* error is the 'already defined' error if and only if no other check fails
\* before the accumulation loop reaches that equation; a second OE equation
\* for the same pin is an error even with APPEND; and an error return
\* carries no fuse map.
C19_AlreadyDefinedUnlessEarlier ==
    cphase = "first" =>
        /\ AlreadyDefined <=> \E k \in DOMAIN cEqs : Redefines(k) /\ ReachedWithoutError(k)
        /\ (\E k \in DOMAIN cEqs : Redefines(k)) => built.err # <<>>
        /\ (\E k \in DOMAIN cEqs : SecondOE(k)) => built.err # <<>>
        /\ built.err # <<>> => built.g = <<>>

\* y = a; APPEND y = b; y = a: the APPEND is accepted and the third equation
\* is the 'already defined' error, with no GAL returned
C19_Witness ==
    /\ cphase = "first"
    /\ Len(cEqs) = 3
    /\ OutputEq(1)
    /\ OutputEq(2) /\ cEqs[2].Append /\ TargetPin(2) = TargetPin(1)
    /\ Redefines(3) /\ TargetPin(3) = TargetPin(1)
    /\ built.err = <<"line", 3, "already defined", cEqs[3].LHS>>
    /\ built.g = <<>>

=============================================================================
